---- MODULE Spec2Model ----
(***************************************************************************)
(* ChildGuard: the profile persistence and migration layer.                *)
(*                                                                         *)
(* The state is the AsyncStorage content under the two keys children_list  *)
(* and child_profile, the clock read by Date.now(), the list screen        *)
(* (HomeScreen: its children state, its loadChildren flow, its delete      *)
(* alert) and the form screen (AddChildScreen: its id route parameter, its *)
(* form values, its loadChildForEdit, onSubmit and handleDelete flows).    *)
(* Every handler is an async function: it is cut at its awaits, one action *)
(* per awaited storage call, which performs the call and runs the code up  *)
(* to the next await.  A storage call may fail (it throws into the         *)
(* handler's catch).                                                       *)
(*                                                                         *)
(* A text is a sequence of one-character strings.  A stored value is Null  *)
(* (getItem returns null) or Json(v), the JSON text that denotes v.        *)
(***************************************************************************)
EXTENDS Integers, Sequences, FiniteSets, TLC

\* ------------------------------------------------------------------ bounds
\* Date.now() ranges over 1..MaxClock.
MaxClock == 2
\* Operations the user starts (save, confirmed delete, pull-to-refresh).
MaxOps == 2
\* Storage calls that fail.
MaxFailures == 1
\* Characters typed before and after the filler of a name given to
\* sanitizeForFileSystem.
MaxTyped == 2

\* ------------------------------------------------- childSchema's constants
MinNameLen == 2
MinAge == 0
MaxAge == 18
MinHeight == 30
MaxHeight == 250
MinWeight == 2
MaxNotesLen == 300
\* sanitizeForFileSystem's slice(0, 40)
MaxFileNameLen == 40

\* ------------------------------------------------------------------- values
Null == [null |-> TRUE]
Json(v) == [json |-> v]
\* JSON.parse of a stored text.
JSONparse(j) == j.json
\* if (childrenJson): null is falsy, every JSON text the app writes is truthy.
Truthy(j) == j # Null

\* Raw form values: undefined, a text typed into a TextInput, or a number put
\* there by reset().
Undefined == [t |-> "undefined"]
Str(s) == [t |-> "string", s |-> s]
Num(n) == [t |-> "number", n |-> n]

NaN == [nan |-> TRUE, val |-> 0]
Finite(n) == [nan |-> FALSE, val |-> n]

Digits == {"0", "1", "2", "3", "4", "5", "6", "7", "8", "9"}

DigitVal(c) ==
  CASE c = "0" -> 0 [] c = "1" -> 1 [] c = "2" -> 2 [] c = "3" -> 3
    [] c = "4" -> 4 [] c = "5" -> 5 [] c = "6" -> 6 [] c = "7" -> 7
    [] c = "8" -> 8 [] c = "9" -> 9

RECURSIVE TrimLeft(_)
TrimLeft(s) ==
  IF s # <<>> /\ Head(s) = " " THEN TrimLeft(Tail(s)) ELSE s

RECURSIVE TrimRight(_)
TrimRight(s) ==
  IF s # <<>> /\ s[Len(s)] = " " THEN TrimRight(SubSeq(s, 1, Len(s) - 1)) ELSE s

Trim(s) == TrimRight(TrimLeft(s))

RECURSIVE DigitsValue(_, _)
DigitsValue(s, acc) ==
  IF s = <<>> THEN acc ELSE DigitsValue(Tail(s), 10 * acc + DigitVal(Head(s)))

\* Number(text) over the alphabet of digits, sign, space and letters: the
\* trimmed text is empty (0), an optionally signed run of digits, or not a
\* number.
StringToNumber(s) ==
  LET u == Trim(s)
      signed == u # <<>> /\ Head(u) \in {"-", "+"}
      body == IF signed THEN Tail(u) ELSE u
  IN  IF u = <<>> THEN Finite(0)
      ELSE IF body = <<>> \/ \E i \in 1..Len(body) : body[i] \notin Digits THEN NaN
      ELSE IF signed /\ Head(u) = "-" THEN Finite(0 - DigitsValue(body, 0))
      ELSE Finite(DigitsValue(body, 0))

\* z.coerce.number(): Number(input), then the number check (NaN is rejected).
CoerceNumber(v) ==
  CASE v.t = "undefined" -> NaN
    [] v.t = "number" -> Finite(v.n)
    [] v.t = "string" -> StringToNumber(v.s)

\* The character of the digit d.
DigitChar(d) == CHOOSE c \in Digits : DigitVal(c) = d

\* n.toString() for an integer n.
RECURSIVE NatText(_)
NatText(n) ==
  IF n < 10 THEN <<DigitChar(n)>> ELSE NatText(n \div 10) \o <<DigitChar(n % 10)>>

Text(n) == IF n < 0 THEN <<"-">> \o NatText(0 - n) ELSE NatText(n)

\* ------------------------------------------------------------- childSchema
fullNameIssue(raw) ==
  raw.fullName.t # "string" \/ Len(raw.fullName.s) < MinNameLen

ageIssue(raw) ==
  LET n == CoerceNumber(raw.age) IN n.nan \/ n.val < MinAge \/ n.val > MaxAge

\* height's .min(30) taken as "more than 30".
heightIssueExclusive(raw) ==
  LET n == CoerceNumber(raw.height) IN n.nan \/ n.val <= MinHeight \/ n.val > MaxHeight

heightIssue(raw) ==
  LET n == CoerceNumber(raw.height) IN n.nan \/ n.val < MinHeight \/ n.val > MaxHeight

weightIssue(raw) ==
  LET n == CoerceNumber(raw.weight) IN n.nan \/ n.val < MinWeight

genderIssue(raw) ==
  raw.gender.t \notin {"string", "undefined"}

\* medicalNotes without .optional(): an untouched field is an issue.
medicalNotesRequired(raw) ==
  \/ raw.medicalNotes.t # "string"
  \/ Len(raw.medicalNotes.s) > MaxNotesLen

medicalNotesIssue(raw) ==
  \/ raw.medicalNotes.t \notin {"string", "undefined"}
  \/ raw.medicalNotes.t = "string" /\ Len(raw.medicalNotes.s) > MaxNotesLen

\* Only the first field with an issue, in the schema's order, is reported.
SchemaErrorsFirstOnly(raw) ==
  IF fullNameIssue(raw) THEN {"fullName"}
  ELSE IF ageIssue(raw) THEN {"age"}
  ELSE IF heightIssue(raw) THEN {"height"}
  ELSE IF weightIssue(raw) THEN {"weight"}
  ELSE IF genderIssue(raw) THEN {"gender"}
  ELSE IF medicalNotesIssue(raw) THEN {"medicalNotes"}
  ELSE {}

\* The fields with an issue: zodResolver keys one error by each of them.
SchemaErrors(raw) ==
  {f \in {"fullName", "age", "height", "weight", "gender", "medicalNotes"} :
     CASE f = "fullName" -> fullNameIssue(raw)
       [] f = "age" -> ageIssue(raw)
       [] f = "height" -> heightIssue(raw)
       [] f = "weight" -> weightIssue(raw)
       [] f = "gender" -> genderIssue(raw)
       [] f = "medicalNotes" -> medicalNotesIssue(raw)}

\* The parsed output: the numbers coerced, an undefined optional key left out.
SchemaData(raw) ==
  LET keys == {"fullName", "age", "height", "weight"}
                \cup (IF raw.gender.t = "string" THEN {"gender"} ELSE {})
                \cup (IF raw.medicalNotes.t = "string" THEN {"medicalNotes"} ELSE {})
  IN  [k \in keys |->
         CASE k = "fullName" -> raw.fullName.s
           [] k = "age" -> CoerceNumber(raw.age).val
           [] k = "height" -> CoerceNumber(raw.height).val
           [] k = "weight" -> CoerceNumber(raw.weight).val
           [] k = "gender" -> raw.gender.s
           [] k = "medicalNotes" -> raw.medicalNotes.s]

\* childSchema with age's .max(18) left out.
childSchemaNoMaxAge(raw) ==
  LET n == CoerceNumber(raw.age)
      errs == {f \in SchemaErrors(raw) : ~(f = "age" /\ ~n.nan /\ n.val > MaxAge)}
  IN  [success |-> errs = {},
       errors |-> errs,
       data |-> IF errs = {} THEN SchemaData(raw) ELSE Null]

\* childSchema.safeParse(raw).
childSchema(raw) ==
  LET errs == SchemaErrors(raw)
  IN  [success |-> errs = {},
       errors |-> errs,
       data |-> IF errs = {} THEN SchemaData(raw) ELSE Null]

\* A record (stored or about to be) meets the schema's range and length rules.
MeetsConstraints(c) ==
  /\ Len(c.fullName) >= MinNameLen
  /\ c.age >= MinAge /\ c.age <= MaxAge
  /\ c.height >= MinHeight /\ c.height <= MaxHeight
  /\ c.weight >= MinWeight
  /\ "medicalNotes" \in DOMAIN c => Len(c.medicalNotes) <= MaxNotesLen

\* ----------------------------------------------------------- list helpers
\* { ...child, id: newId }
WithId(child, newId) ==
  [k \in DOMAIN child \cup {"id"} |-> IF k = "id" THEN newId ELSE child[k]]

\* The record without its id.
Fields(c) == [k \in DOMAIN c \ {"id"} |-> c[k]]

\* list.filter(c => c.id === target): the filter with its test inverted.
FilterOutInverted(list, target) ==
  SelectSeq(list, LAMBDA c : c.id = target)

\* list.filter(c => c.id !== target)
RECURSIVE FilterOut(_, _)
FilterOut(list, target) ==
  IF list = <<>> THEN <<>>
  ELSE IF Head(list).id # target THEN <<Head(list)>> \o FilterOut(Tail(list), target)
  ELSE FilterOut(Tail(list), target)

\* findIndex answering the first position whenever the target is in the list.
findIndexFirst(list, target) ==
  IF \E i \in 1..Len(list) : list[i].id = target THEN 1 ELSE 0

\* list.findIndex(c => c.id === target), 1-based; 0 for -1.
findIndex(list, target) ==
  IF \E i \in 1..Len(list) : list[i].id = target
  THEN CHOOSE i \in 1..Len(list) :
         /\ list[i].id = target
         /\ \A j \in 1..(i - 1) : list[j].id # target
  ELSE 0

\* Date.now().toString()
IdOf(t) == ToString(t)

Ids(list) == {list[i].id : i \in 1..Len(list)}

\* value || ""
OrEmpty(c, k) == IF k \in DOMAIN c /\ c[k] # <<>> THEN c[k] ELSE <<>>

\* ------------------------------------------------------------ form inputs
\* Forms the schema accepts (RawAl, RawBo) and forms it rejects (a
\* one-character name; an age of 19).  The user presses Save with one of
\* Inputs typed in.
RawAl ==
  [fullName |-> Str(<<"A", "l">>), age |-> Str(<<"5">>),
   height |-> Str(<<"1", "1", "0">>), weight |-> Str(<<"1", "8">>),
   gender |-> Str(<<>>), medicalNotes |-> Str(<<>>)]

RawBo ==
  [fullName |-> Str(<<"B", "o">>), age |-> Str(<<"1", "8">>),
   height |-> Num(250), weight |-> Str(<<" ", "2">>),
   gender |-> Str(<<"f">>), medicalNotes |-> Str(<<"n">>)]

RawShortName == [RawAl EXCEPT !.fullName = Str(<<"A">>)]

RawTooOld == [RawAl EXCEPT !.age = Str(<<"1", "9">>)]

Inputs == {RawBo, RawTooOld}

\* The record the earlier single-profile screen left under child_profile: it
\* saved the parsed output of the same schema, with no id.
RawLegacy ==
  [fullName |-> Str(<<"O", "l", "d">>), age |-> Str(<<"0">>),
   height |-> Str(<<"3", "0">>), weight |-> Str(<<"2">>),
   gender |-> Str(<<>>), medicalNotes |-> Str(<<>>)]

LegacyChild == childSchema(RawLegacy).data

\* A record an earlier session created, at clock reading 0.
EarlierChild == WithId(childSchema(RawAl).data, IdOf(0))

\* -------------------------------------------------------------------- state
VARIABLES
  storage,      \* AsyncStorage: children_list and child_profile
  now,          \* Date.now()
  screen,       \* the focused screen: "home" or "form"
  children,     \* HomeScreen: useState children
  homeLoad,     \* HomeScreen: the loadChildren call in flight
  homeDelete,   \* HomeScreen: handleDeleteChild's alert and its onPress
  id,           \* AddChildScreen: the id route parameter ("" when adding)
  form,         \* AddChildScreen: the form values
  formErrors,   \* AddChildScreen: formState.errors (field names)
  loadEdit,     \* AddChildScreen: the loadChildForEdit call in flight
  submit,       \* AddChildScreen: the onSubmit call in flight
  del,          \* AddChildScreen: handleDelete's alert and its onPress
  ops,          \* operations the user has started
  failBudget,   \* storage calls that may fail in this run
  failures,     \* storage and media calls that have failed
  migrations,   \* writes of a migrated copy of child_profile into children_list
  lastWriter,   \* the flow that wrote children_list last
  export,       \* AddChildScreen: the exportPdfAndImage call in flight
  media,        \* the device: captured image files and the photo library
  call          \* a function of the screen called on its own: argument, result

vars ==
  <<storage, now, screen, children, homeLoad, homeDelete, id, form, formErrors,
    loadEdit, submit, del, ops, failBudget, failures, migrations, lastWriter,
    export, media, call>>

\* useForm's defaultValues.
DefaultForm ==
  [fullName |-> Str(<<>>), age |-> Undefined, height |-> Undefined,
   weight |-> Undefined, gender |-> Str(<<>>), medicalNotes |-> Str(<<>>)]

\* A flow's record holds its position (pc: the await it is at), its locals,
\* (confirmed: the alert's Delete button started it),
\* and the outcome of its last call: result, the notices in alerts, and for a
\* load the storage it started from (before), the list it gave setChildren
\* (returned) and the same of the load before it (prev).  An outcome is kept
\* until the user starts the next operation.
IdleLoad ==
  [pc |-> "idle", migratedChild |-> Null, result |-> "none", before |-> Null,
   returned |-> <<>>, prev |-> Null]

IdleHomeDelete ==
  [pc |-> "idle", id |-> "", children |-> <<>>, updatedChildren |-> <<>>,
   confirmed |-> FALSE, result |-> "none"]

IdleLoadEdit == [pc |-> "idle", result |-> "none", alerts |-> {}]

\* savedId is the id of the record the call saved (created or updated); read
\* is the list the call read, staleBy the flows that wrote children_list
\* between that read and the call's own write.
IdleSubmit ==
  [pc |-> "idle", edit |-> FALSE, data |-> Null, read |-> <<>>,
   childrenList |-> <<>>, updatedList |-> <<>>, savedId |-> "",
   alerts |-> {}, result |-> "none", staleBy |-> {}]

IdleDel ==
  [pc |-> "idle", target |-> "", read |-> <<>>, updatedChildren |-> <<>>,
   confirmed |-> FALSE, alerts |-> {}, result |-> "none", staleBy |-> {}]

\* isExporting is the screen's flag of that name; album is the album name the
\* call computed; before is the device's media as the call found it.
IdleExport ==
  [pc |-> "idle", data |-> Null, isExporting |-> FALSE, album |-> <<>>,
   alerts |-> {}, result |-> "none", before |-> Null]

\* captures: the image files captureRef has written; documents: the document
\* files written (this screen's exportPdfAndImage has no call that writes
\* one); assets: the assets in the photo library; albums: the albums of the
\* library in the order of their creation, each with its name and the number
\* of its assets; saved: the album names of the exports that ended with the
\* "Saved" notice.
NoMedia ==
  [captures |-> 0, documents |-> 0, assets |-> 0, albums |-> <<>>, saved |-> <<>>]

\* No function is being called on its own.
NoCall == [fn |-> "none", arg |-> Null, out |-> Null, done |-> FALSE]

\* No handler is between two awaits.
AllIdle ==
  /\ homeLoad.pc = "idle"
  /\ homeDelete.pc \in {"idle", "alert"}
  /\ loadEdit.pc = "idle"
  /\ submit.pc = "idle"
  /\ del.pc \in {"idle", "alert"}
  /\ export.pc = "idle"

\* With serial set, a handler starts only when none is in flight (the
\* single-flow scheduling of one user action at a time).
MayStart(serial) == serial => AllIdle

\* The outcomes of a storage call: it returns, or (while the run's budget of
\* failing calls lasts) it throws.
Outcomes == {FALSE} \cup (IF failures < failBudget THEN {TRUE} ELSE {})

Failed(fail) == failures' = (IF fail THEN failures + 1 ELSE failures)

\* Date.now(): a reading t not earlier than the last one.
Readings == now..MaxClock
DateNow(t) == now' = t

\* AsyncStorage.setItem("children_list", JSON.stringify(list))
SetList(list) == storage' = [storage EXCEPT !.children_list = Json(list)]

\* The removeItem call left out.
RemoveLegacySkipped == UNCHANGED storage

\* AsyncStorage.removeItem("child_profile")
RemoveLegacy == storage' = [storage EXCEPT !.child_profile = Null]

\* A flow that has read children_list and not written it yet, when flow w
\* writes the list: its read is stale by w from then on.
SubmitStale(w) ==
  IF submit.pc = "setList" THEN [submit EXCEPT !.staleBy = @ \cup {w}] ELSE submit

DelStale(w) ==
  IF del.pc = "setList" THEN [del EXCEPT !.staleBy = @ \cup {w}] ELSE del

\* The user starts an operation: the outcomes of the calls that have returned
\* are history, and a load in flight no longer runs alone.
ForgetLoad ==
  IF homeLoad.pc = "idle" THEN IdleLoad
  ELSE [homeLoad EXCEPT !.before = Null, !.prev = Null]

ForgetHomeDelete == IF homeDelete.pc = "idle" THEN IdleHomeDelete ELSE homeDelete
ForgetLoadEdit == IF loadEdit.pc = "idle" THEN IdleLoadEdit ELSE loadEdit
ForgetSubmit == IF submit.pc = "idle" THEN IdleSubmit ELSE submit
ForgetDel == IF del.pc = "idle" THEN IdleDel ELSE del

\* The app starts on the list screen, whose focus effect calls loadChildren.
\* The storage is empty (a fresh install), holds the single profile of the
\* earlier storage format, or holds a list saved by an earlier session.
StartIn(stores) ==
  /\ storage \in stores
  /\ now = 1
  /\ screen = "home"
  /\ children = <<>>
  /\ homeLoad = [IdleLoad EXCEPT !.pc = "getList", !.before = storage]
  /\ homeDelete = IdleHomeDelete
  /\ id = ""
  /\ form = DefaultForm
  /\ formErrors = {}
  /\ loadEdit = IdleLoadEdit
  /\ submit = IdleSubmit
  /\ del = IdleDel
  /\ ops = 0
  /\ failures = 0
  /\ migrations = 0
  /\ lastWriter = "none"
  /\ export = IdleExport
  /\ media = NoMedia
  /\ call = NoCall

\* What a first start of this version finds in AsyncStorage: nothing, the
\* single profile of the earlier version, or a list with one record.
FreshStores ==
  {[children_list |-> Null, child_profile |-> Null],
   [children_list |-> Null, child_profile |-> Json(LegacyChild)],
   [children_list |-> Json(<<EarlierChild>>), child_profile |-> Null]}

Start == StartIn(FreshStores)

\* A later start of the app may also find a list of two records, the second
\* created at clock reading 1.
LaterChild == WithId(childSchema(RawBo).data, IdOf(1))
UsedStores ==
  FreshStores
    \cup {[children_list |-> Json(<<EarlierChild, LaterChild>>),
           child_profile |-> Null]}

\* Every storage call returns.
Init == Start /\ failBudget = 0

\* Up to MaxFailures storage calls throw.
InitFailing == Start /\ failBudget = MaxFailures

\* One storage call more throws: a flow fails, and the flow repeated after it
\* fails again.
InitFailingAgain == Start /\ failBudget = MaxFailures + 1

\* The app starts on a store that has been used; up to MaxFailures storage
\* calls throw.
InitUsed == StartIn(UsedStores) /\ failBudget = MaxFailures

\* ------------------------------------------------ HomeScreen: loadChildren
\* No flow but f (which is returning) and loadChildren is between two awaits.
QuietBut(f) ==
  /\ homeDelete.pc \in {"idle", "alert"}
  /\ loadEdit.pc = "idle"
  /\ f = "submit" \/ submit.pc = "idle"
  /\ f = "del" \/ del.pc \in {"idle", "alert"}

\* loadChildren() is called, as flow f returns or by the user (f = "user"): it
\* runs to its first await.  The record of what the load started from (st, the
\* storage as the call finds it) is kept for a load that runs with no other
\* flow in flight.
LoadStarted(f, st) ==
  [IdleLoad EXCEPT
     !.pc = "getList",
     !.before = IF QuietBut(f) THEN st ELSE Null,
     !.prev = IF QuietBut(f) /\ homeLoad.result = "ok" /\ homeLoad.before # Null
              THEN [before |-> homeLoad.before, returned |-> homeLoad.returned]
              ELSE Null]

\* useFocusEffect: the list screen gains focus and reloads (a reload already
\* in flight stands for it).
FocusEffect(f, st) ==
  /\ screen' = "home"
  /\ homeLoad' = IF homeLoad.pc = "idle" THEN LoadStarted(f, st) ELSE homeLoad

\* loadChildren returning after setChildren([]) whatever it read.
LoadDoneEmpty(list, outcome) ==
  /\ children' = <<>>
  /\ homeLoad' = [homeLoad EXCEPT !.pc = "idle", !.migratedChild = Null,
                                  !.result = outcome, !.returned = <<>>]

\* loadChildren returns after setChildren(list).
LoadDone(list, outcome) ==
  /\ children' = list
  /\ homeLoad' = [homeLoad EXCEPT !.pc = "idle", !.migratedChild = Null,
                                  !.result = outcome, !.returned = list]

\* catch (error) { setChildren([]) }
LoadCatch == LoadDone(<<>>, "error")

\* onRefresh: pull to refresh.
Refresh(serial) ==
  /\ screen = "home" /\ homeLoad.pc = "idle" /\ homeDelete.pc # "alert"
  /\ ops < MaxOps
  /\ MayStart(serial)
  /\ homeLoad' = LoadStarted("user", storage)
  /\ homeDelete' = ForgetHomeDelete
  /\ loadEdit' = ForgetLoadEdit
  /\ submit' = ForgetSubmit
  /\ del' = ForgetDel
  /\ ops' = ops + 1
  /\ UNCHANGED <<storage, now, screen, children, id, form, formErrors,
                 failBudget, call, export, media, failures, migrations, lastWriter>>

\* await AsyncStorage.getItem('children_list')
LoadGetList ==
  /\ homeLoad.pc = "getList"
  /\ \E fail \in Outcomes :
       /\ Failed(fail)
       /\ IF fail THEN LoadCatch
          ELSE IF Truthy(storage.children_list)
          THEN LoadDone(JSONparse(storage.children_list), "ok")
          ELSE /\ homeLoad' = [homeLoad EXCEPT !.pc = "getLegacy"]
               /\ UNCHANGED children
  /\ UNCHANGED <<storage, now, screen, homeDelete, id, form, formErrors, loadEdit,
                 submit, del, ops, failBudget, call, export, media, migrations, lastWriter>>

\* await AsyncStorage.getItem('child_profile')
LoadGetLegacy ==
  /\ homeLoad.pc = "getLegacy"
  /\ \E fail \in Outcomes :
       /\ Failed(fail)
       /\ IF fail THEN LoadCatch /\ UNCHANGED now
          ELSE IF Truthy(storage.child_profile)
          THEN /\ \E t \in Readings :
                    /\ DateNow(t)
                    /\ homeLoad' =
                         [homeLoad EXCEPT
                            !.pc = "setList",
                            !.migratedChild =
                               WithId(JSONparse(storage.child_profile), IdOf(t))]
               /\ UNCHANGED children
          ELSE LoadDone(<<>>, "ok") /\ UNCHANGED now
  /\ UNCHANGED <<storage, screen, homeDelete, id, form, formErrors, loadEdit,
                 submit, del, ops, failBudget, call, export, media, migrations, lastWriter>>

\* loadChildren with its two calls swapped: child_profile is removed at the
\* point where the list should be written.
LoadSetListRemovesFirst ==
  /\ homeLoad.pc = "setList"
  /\ RemoveLegacy
  /\ homeLoad' = [homeLoad EXCEPT !.pc = "removeLegacy"]
  /\ UNCHANGED <<now, screen, children, homeDelete, id, form, formErrors, loadEdit,
                 submit, del, ops, failBudget, call, export, media, failures, migrations, lastWriter>>

\* await AsyncStorage.setItem('children_list', JSON.stringify([migratedChild]))
LoadSetList ==
  /\ homeLoad.pc = "setList"
  /\ \E fail \in Outcomes :
       /\ Failed(fail)
       /\ IF fail
          THEN LoadCatch /\ UNCHANGED <<storage, migrations, submit, del, lastWriter>>
          ELSE /\ SetList(<<homeLoad.migratedChild>>)
               /\ homeLoad' = [homeLoad EXCEPT !.pc = "removeLegacy"]
               /\ migrations' = migrations + 1
               /\ lastWriter' = "load"
               /\ submit' = SubmitStale("load")
               /\ del' = DelStale("load")
               /\ UNCHANGED children
  /\ UNCHANGED <<now, screen, homeDelete, id, form, formErrors, loadEdit, ops,
                 failBudget, call, export, media>>

\* await AsyncStorage.removeItem('child_profile'); setChildren([migratedChild])
LoadRemoveLegacy ==
  /\ homeLoad.pc = "removeLegacy"
  /\ \E fail \in Outcomes :
       /\ Failed(fail)
       /\ IF fail THEN LoadCatch /\ UNCHANGED storage
          ELSE /\ RemoveLegacy
               /\ LoadDone(<<homeLoad.migratedChild>>, "ok")
  /\ UNCHANGED <<now, screen, homeDelete, id, form, formErrors, loadEdit, submit,
                 del, ops, failBudget, call, export, media, migrations, lastWriter>>

\* ------------------------------------------- HomeScreen: handleDeleteChild
\* A delete button whose press runs the delete at once, with no alert.
AskDeleteNoAlert ==
  /\ screen = "home" /\ homeDelete.pc = "idle"
  /\ \E i \in 1..Len(children) :
       homeDelete' = [IdleHomeDelete EXCEPT
                        !.pc = "setList", !.id = children[i].id,
                        !.children = children,
                        !.updatedChildren = FilterOut(children, children[i].id)]
  /\ UNCHANGED <<storage, now, screen, children, homeLoad, id, form, formErrors,
                 loadEdit, submit, del, ops, failBudget, call, export, media, failures, migrations,
                 lastWriter>>

\* A delete button is pressed: the alert opens.  Its onPress closes over the
\* children of the render that drew the button.
AskDelete ==
  /\ screen = "home" /\ homeDelete.pc = "idle"
  /\ \E i \in 1..Len(children) :
       homeDelete' = [IdleHomeDelete EXCEPT !.pc = "alert", !.id = children[i].id,
                                            !.children = children]
  /\ UNCHANGED <<storage, now, screen, children, homeLoad, id, form, formErrors,
                 loadEdit, submit, del, ops, failBudget, call, export, media, failures, migrations,
                 lastWriter>>

\* { text: 'Cancel' }
CancelDelete ==
  /\ homeDelete.pc = "alert"
  /\ homeDelete' = IdleHomeDelete
  /\ UNCHANGED <<storage, now, screen, children, homeLoad, id, form, formErrors,
                 loadEdit, submit, del, ops, failBudget, call, export, media, failures, migrations,
                 lastWriter>>

\* { text: 'Delete' } is pressed: onPress runs to its await.
ConfirmDelete(serial) ==
  /\ homeDelete.pc = "alert"
  /\ ops < MaxOps
  /\ MayStart(serial)
  /\ homeDelete' =
       [homeDelete EXCEPT
          !.pc = "setList",
          !.confirmed = TRUE,
          !.updatedChildren = FilterOut(homeDelete.children, homeDelete.id)]
  /\ homeLoad' = ForgetLoad
  /\ loadEdit' = ForgetLoadEdit
  /\ submit' = ForgetSubmit
  /\ del' = ForgetDel
  /\ ops' = ops + 1
  /\ UNCHANGED <<storage, now, screen, children, id, form, formErrors,
                 failBudget, call, export, media, failures, migrations, lastWriter>>

\* await AsyncStorage.setItem('children_list', ...); setChildren(updatedChildren)
DeleteSetList ==
  /\ homeDelete.pc = "setList"
  /\ \E fail \in Outcomes :
       /\ Failed(fail)
       /\ IF fail
          THEN /\ homeDelete' = [homeDelete EXCEPT !.pc = "idle", !.result = "error"]
               /\ UNCHANGED <<storage, children, submit, del, lastWriter>>
          ELSE /\ SetList(homeDelete.updatedChildren)
               /\ children' = homeDelete.updatedChildren
               /\ homeDelete' = [homeDelete EXCEPT !.pc = "idle", !.result = "ok"]
               /\ lastWriter' = "homeDelete"
               /\ submit' = SubmitStale("homeDelete")
               /\ del' = DelStale("homeDelete")
  /\ UNCHANGED <<now, screen, homeLoad, id, form, formErrors, loadEdit, ops,
                 failBudget, call, export, media, migrations>>

\* ----------------------------------------------- AddChildScreen: navigation
FormIdle == loadEdit.pc = "idle" /\ submit.pc = "idle" /\ del.pc = "idle"

\* router.push('/add_child'): the form opens in add mode.
OpenAdd ==
  /\ screen = "home" /\ homeDelete.pc # "alert" /\ FormIdle
  /\ screen' = "form"
  /\ id' = ""
  /\ form' = DefaultForm
  /\ formErrors' = {}
  /\ loadEdit' = IdleLoadEdit
  /\ del' = IdleDel
  /\ homeDelete' = ForgetHomeDelete
  /\ UNCHANGED <<storage, now, children, homeLoad, submit, ops, failBudget, call, export, media,
                 failures, migrations, lastWriter>>

\* router.push({ pathname: '/add_child', params: { id: child.id } }): the form
\* opens in edit mode and its effect calls loadChildForEdit(id).
OpenEdit(serial) ==
  /\ screen = "home" /\ homeDelete.pc # "alert" /\ FormIdle
  /\ MayStart(serial)
  /\ \E i \in 1..Len(children) : id' = children[i].id
  /\ screen' = "form"
  /\ form' = DefaultForm
  /\ formErrors' = {}
  /\ loadEdit' = [IdleLoadEdit EXCEPT !.pc = IF id' # "" THEN "getList" ELSE "idle"]
  /\ del' = IdleDel
  /\ homeDelete' = ForgetHomeDelete
  /\ UNCHANGED <<storage, now, children, homeLoad, submit, ops, failBudget, call, export, media,
                 failures, migrations, lastWriter>>

\* router.back(): the form is left (its state goes with it) and the list
\* screen gains focus.
RouterBack(f, st) ==
  IF screen = "form"
  THEN /\ FocusEffect(f, st)
       /\ form' = DefaultForm
       /\ formErrors' = {}
  ELSE UNCHANGED <<screen, homeLoad, form, formErrors>>

\* handleBack
Back(serial) ==
  /\ screen = "form" /\ del.pc # "alert"
  /\ MayStart(serial)
  /\ RouterBack("user", storage)
  /\ loadEdit' = ForgetLoadEdit
  /\ UNCHANGED <<storage, now, children, homeDelete, id, submit, del, ops,
                 failBudget, call, export, media, failures, migrations, lastWriter>>

\* ------------------------------------------ AddChildScreen: loadChildForEdit
\* reset({...}) with the found child's fields.
ResetValues(child) ==
  [fullName |-> Str(OrEmpty(child, "fullName")),
   age |-> Num(child.age),
   height |-> Num(child.height),
   weight |-> Num(child.weight),
   gender |-> Str(OrEmpty(child, "gender")),
   medicalNotes |-> Str(OrEmpty(child, "medicalNotes"))]

\* await AsyncStorage.getItem("children_list"); find; reset (a reset of a form
\* that has been left shows nowhere).
EditGetList ==
  /\ loadEdit.pc = "getList"
  /\ \E fail \in Outcomes :
       /\ Failed(fail)
       /\ IF fail
          THEN /\ loadEdit' = [IdleLoadEdit EXCEPT !.result = "error"]
               /\ UNCHANGED form
          ELSE IF ~Truthy(storage.children_list)
          THEN /\ loadEdit' = [IdleLoadEdit EXCEPT !.result = "nolist"]
               /\ UNCHANGED form
          ELSE LET childrenList == JSONparse(storage.children_list)
                   i == findIndex(childrenList, id)
               IN  IF i # 0
                   THEN /\ form' = IF screen = "form"
                                   THEN ResetValues(childrenList[i]) ELSE form
                        /\ loadEdit' = [IdleLoadEdit EXCEPT !.result = "loaded"]
                   ELSE /\ loadEdit' = [IdleLoadEdit EXCEPT !.result = "notfound"]
                        /\ UNCHANGED form
  /\ UNCHANGED <<storage, now, screen, children, homeLoad, homeDelete, id,
                 formErrors, submit, del, ops, failBudget, call, export, media, migrations, lastWriter>>

\* ---------------------------------------------------- AddChildScreen: onSubmit
\* handleSubmit(onSubmit) with a form the schema rejects: the errors are set
\* and onSubmit is not called.
SubmitInvalid ==
  /\ screen = "form" /\ del.pc # "alert"
  /\ \E raw \in Inputs :
       /\ ~childSchema(raw).success
       /\ formErrors' = childSchema(raw).errors
  /\ UNCHANGED <<storage, now, screen, children, homeLoad, homeDelete, id, form,
                 loadEdit, submit, del, ops, failBudget, call, export, media, failures, migrations,
                 lastWriter>>

\* handleSubmit(onSubmit) with a form the schema accepts: onSubmit(data) runs
\* to its first await.
Submit(serial) ==
  /\ screen = "form" /\ del.pc # "alert" /\ submit.pc = "idle"
  /\ ops < MaxOps
  /\ MayStart(serial)
  /\ \E raw \in Inputs :
       /\ childSchema(raw).success
       /\ submit' = [IdleSubmit EXCEPT !.pc = "getList", !.edit = (id # ""),
                                       !.data = childSchema(raw).data]
  /\ formErrors' = {}
  /\ homeLoad' = ForgetLoad
  /\ homeDelete' = ForgetHomeDelete
  /\ loadEdit' = ForgetLoadEdit
  /\ del' = ForgetDel
  /\ ops' = ops + 1
  /\ UNCHANGED <<storage, now, screen, children, id, form, failBudget, call, export, media, failures,
                 migrations, lastWriter>>

\* onSubmit has returned: its locals are gone (those of a call whose read
\* was stale are kept for the record).
SubmitReturned(outcome, alert) ==
  IF submit.staleBy = {}
  THEN [IdleSubmit EXCEPT !.edit = submit.edit, !.data = submit.data,
                          !.savedId = submit.savedId, !.result = outcome,
                          !.alerts = submit.alerts \cup alert]
  ELSE [submit EXCEPT !.pc = "idle", !.result = outcome, !.alerts = @ \cup alert]

\* catch (e) { Alert.alert("Error", "Failed to save data") }
SubmitCatch == submit' = SubmitReturned("error", {"Failed to save data"})

\* The updated child pushed instead of put at its index.
ReplaceAtPushed(list, i, child) == Append(list, child)

\* list with the element at index i replaced by child
ReplaceAt(list, i, child) == [list EXCEPT ![i] = child]

\* The new child put first in the list.
PushedFirst(list, child) == <<child>> \o list

\* childrenList.push(newChild)
Push(list, child) == Append(list, child)

\* The not-found branch without its return: onSubmit goes on to the write.
SubmitNotFoundNoReturn(childrenList) ==
  submit' = [submit EXCEPT !.pc = "setList", !.read = childrenList,
                           !.savedId = id, !.childrenList = childrenList,
                           !.alerts = @ \cup {"Child profile not found"}]

\* Alert.alert("Error", "Child profile not found"); return
SubmitNotFound(childrenList) ==
  submit' = SubmitReturned("notfound", {"Child profile not found"})

\* await AsyncStorage.getItem("children_list"), then the update or the push.
SubmitGetList ==
  /\ submit.pc = "getList"
  /\ \E fail \in Outcomes :
       /\ Failed(fail)
       /\ IF fail THEN SubmitCatch /\ UNCHANGED now
          ELSE LET childrenList == IF Truthy(storage.children_list)
                                   THEN JSONparse(storage.children_list) ELSE <<>>
                   childIndex == findIndex(childrenList, id)
               IN  IF submit.edit
                   THEN IF childIndex # 0
                        THEN /\ submit' =
                                  [submit EXCEPT
                                     !.pc = "setList",
                                     !.read = childrenList,
                                     !.savedId = id,
                                     !.childrenList =
                                        ReplaceAt(childrenList, childIndex,
                                                  WithId(submit.data, id)),
                                     !.alerts = @ \cup {"Child profile updated!"}]
                             /\ UNCHANGED now
                        ELSE /\ SubmitNotFound(childrenList)
                             /\ UNCHANGED now
                   ELSE \E t \in Readings :
                          /\ DateNow(t)
                          /\ submit' =
                               [submit EXCEPT
                                  !.pc = "setList",
                                  !.read = childrenList,
                                  !.savedId = IdOf(t),
                                  !.childrenList =
                                     Push(childrenList, WithId(submit.data, IdOf(t))),
                                  !.alerts = @ \cup {"Child profile saved!"}]
  /\ UNCHANGED <<storage, screen, children, homeLoad, homeDelete, id, form,
                 formErrors, loadEdit, del, ops, failBudget, call, export, media, migrations, lastWriter>>

\* await AsyncStorage.setItem("children_list", JSON.stringify(childrenList))
SubmitSetList ==
  /\ submit.pc = "setList"
  /\ \E fail \in Outcomes :
       /\ Failed(fail)
       /\ IF fail
          THEN SubmitCatch /\ UNCHANGED <<storage, del, lastWriter>>
          ELSE /\ SetList(submit.childrenList)
               /\ submit' = [submit EXCEPT !.pc = "getLegacy"]
               /\ del' = DelStale("submit")
               /\ lastWriter' = "submit"
  /\ UNCHANGED <<now, screen, children, homeLoad, homeDelete, id, form, formErrors,
                 loadEdit, ops, failBudget, call, export, media, migrations>>

\* router.back() at the end of onSubmit.
SubmitDone(st) ==
  /\ submit' = SubmitReturned("ok", {})
  /\ RouterBack("submit", st)

\* await AsyncStorage.getItem("child_profile"), then the migration's list.
SubmitGetLegacy ==
  /\ submit.pc = "getLegacy"
  /\ \E fail \in Outcomes :
       /\ Failed(fail)
       /\ IF fail
          THEN SubmitCatch /\ UNCHANGED <<now, screen, homeLoad, form, formErrors>>
          ELSE IF Truthy(storage.child_profile) /\ ~submit.edit
          THEN /\ \E t \in Readings :
                    /\ DateNow(t)
                    /\ submit' =
                         [submit EXCEPT
                            !.pc = "setMigrated",
                            !.updatedList =
                               Append(submit.childrenList,
                                      WithId(JSONparse(storage.child_profile),
                                             IdOf(t + 1)))]
               /\ UNCHANGED <<screen, homeLoad, form, formErrors>>
          ELSE SubmitDone(storage) /\ UNCHANGED now
  /\ UNCHANGED <<storage, children, homeDelete, id, loadEdit, del, ops,
                 failBudget, call, export, media, migrations, lastWriter>>

\* onSubmit with its two last calls swapped: child_profile is removed at the
\* point where the list with the migrated record should be written.
SubmitSetMigratedRemovesFirst ==
  /\ submit.pc = "setMigrated"
  /\ RemoveLegacy
  /\ submit' = [submit EXCEPT !.pc = "removeLegacy"]
  /\ UNCHANGED <<now, screen, children, homeLoad, homeDelete, id, form, formErrors,
                 loadEdit, del, ops, failBudget, call, export, media, failures,
                 migrations, lastWriter>>

\* await AsyncStorage.setItem("children_list", JSON.stringify(updatedList))
SubmitSetMigrated ==
  /\ submit.pc = "setMigrated"
  /\ \E fail \in Outcomes :
       /\ Failed(fail)
       /\ IF fail
          THEN SubmitCatch /\ UNCHANGED <<storage, del, migrations, lastWriter>>
          ELSE /\ SetList(submit.updatedList)
               /\ submit' = [submit EXCEPT !.pc = "removeLegacy"]
               /\ del' = DelStale("submit")
               /\ migrations' = migrations + 1
               /\ lastWriter' = "submit"
  /\ UNCHANGED <<now, screen, children, homeLoad, homeDelete, id, form, formErrors,
                 loadEdit, ops, failBudget, call, export, media>>

\* await AsyncStorage.removeItem("child_profile"); router.back()
SubmitRemoveLegacy ==
  /\ submit.pc = "removeLegacy"
  /\ \E fail \in Outcomes :
       /\ Failed(fail)
       /\ IF fail
          THEN SubmitCatch /\ UNCHANGED <<storage, screen, homeLoad, form, formErrors>>
          ELSE RemoveLegacy /\ SubmitDone(storage')
  /\ UNCHANGED <<now, children, homeDelete, id, loadEdit, del, ops, failBudget, call, export, media,
                 migrations, lastWriter>>

\* ------------------------------------------------ AddChildScreen: handleDelete
\* The Delete button (edit mode only): the alert opens.
AskFormDelete ==
  /\ screen = "form" /\ id # "" /\ del.pc = "idle"
  /\ del' = [IdleDel EXCEPT !.pc = "alert"]
  /\ UNCHANGED <<storage, now, screen, children, homeLoad, homeDelete, id, form,
                 formErrors, loadEdit, submit, ops, failBudget, call, export, media, failures,
                 migrations, lastWriter>>

\* { text: 'Cancel' }
CancelFormDelete ==
  /\ del.pc = "alert"
  /\ del' = IdleDel
  /\ UNCHANGED <<storage, now, screen, children, homeLoad, homeDelete, id, form,
                 formErrors, loadEdit, submit, ops, failBudget, call, export, media, failures,
                 migrations, lastWriter>>

\* { text: 'Delete' } is pressed: onPress runs to its first await.
ConfirmFormDelete(serial) ==
  /\ del.pc = "alert"
  /\ ops < MaxOps
  /\ MayStart(serial)
  /\ del' = [del EXCEPT !.pc = "getList", !.target = id, !.confirmed = TRUE]
  /\ homeLoad' = ForgetLoad
  /\ homeDelete' = ForgetHomeDelete
  /\ loadEdit' = ForgetLoadEdit
  /\ submit' = ForgetSubmit
  /\ ops' = ops + 1
  /\ UNCHANGED <<storage, now, screen, children, id, form, formErrors,
                 failBudget, call, export, media, failures, migrations, lastWriter>>

\* onPress has returned: its locals are gone (those of a call whose read was
\* stale are kept for the record).
DelReturned(outcome, alert) ==
  IF del.staleBy = {}
  THEN [IdleDel EXCEPT !.target = del.target, !.result = outcome,
                       !.alerts = del.alerts \cup alert]
  ELSE [del EXCEPT !.pc = "idle", !.result = outcome, !.alerts = @ \cup alert]

\* catch (error) { Alert.alert('Error', 'Failed to delete child profile') }
DelCatch == del' = DelReturned("error", {"Failed to delete child profile"})

\* await AsyncStorage.getItem('children_list'), then the filter.
DelGetList ==
  /\ del.pc = "getList"
  /\ \E fail \in Outcomes :
       /\ Failed(fail)
       /\ IF fail THEN DelCatch
          ELSE IF Truthy(storage.children_list)
          THEN del' = [del EXCEPT
                         !.pc = "setList",
                         !.read = JSONparse(storage.children_list),
                         !.updatedChildren =
                            FilterOut(JSONparse(storage.children_list), id)]
          ELSE del' = DelReturned("nolist", {"No children found"})
  /\ UNCHANGED <<storage, now, screen, children, homeLoad, homeDelete, id, form,
                 formErrors, loadEdit, submit, ops, failBudget, call, export, media, migrations,
                 lastWriter>>

\* await AsyncStorage.setItem('children_list', ...); the alert; router.back()
DelSetList ==
  /\ del.pc = "setList"
  /\ \E fail \in Outcomes :
       /\ Failed(fail)
       /\ IF fail
          THEN DelCatch
               /\ UNCHANGED <<storage, screen, homeLoad, form, formErrors, submit,
                              lastWriter>>
          ELSE /\ SetList(del.updatedChildren)
               /\ del' = DelReturned("ok", {"Child profile deleted"})
               /\ RouterBack("del", storage')
               /\ submit' = SubmitStale("del")
               /\ lastWriter' = "del"
  /\ UNCHANGED <<now, children, homeDelete, id, loadEdit, ops, failBudget, call, export, media,
                 migrations>>

\* ------------------------------------------- AddChildScreen: exportPdfAndImage
Letters ==
  {"a", "b", "c", "d", "e", "f", "g", "h", "i", "j", "k", "l", "m", "n", "o", "p",
   "q", "r", "s", "t", "u", "v", "w", "x", "y", "z",
   "A", "B", "C", "D", "E", "F", "G", "H", "I", "J", "K", "L", "M", "N", "O", "P",
   "Q", "R", "S", "T", "U", "V", "W", "X", "Y", "Z"}

\* The characters /[^a-z0-9-_]+/gi does not match.
FileNameChars == Letters \cup Digits \cup {"-", "_"}

\* replace(/[^a-z0-9-_]+/gi, "_"): every run of other characters becomes one
\* "_" (inRun: the character before was part of such a run).
RECURSIVE ReplaceRuns(_, _)
ReplaceRuns(s, inRun) ==
  IF s = <<>> THEN <<>>
  ELSE IF Head(s) \in FileNameChars THEN <<Head(s)>> \o ReplaceRuns(Tail(s), FALSE)
  ELSE IF inRun THEN ReplaceRuns(Tail(s), TRUE)
  ELSE <<"_">> \o ReplaceRuns(Tail(s), TRUE)

\* sanitizeForFileSystem(value)
sanitizeForFileSystem(value) ==
  LET clean == ReplaceRuns(Trim(value), FALSE)
  IN  IF Len(clean) > 0
      THEN SubSeq(clean, 1, IF Len(clean) < MaxFileNameLen THEN Len(clean)
                            ELSE MaxFileNameLen)
      ELSE <<"c", "h", "i", "l", "d">>

\* `ChildGuardID - ${safeName}`
AlbumName(safeName) == <<"ChildGuardID - ">> \o safeName

\* getAlbumAsync(name) finding no album, whatever the library holds.
AlbumExistsNever(name) == FALSE

\* getAlbumAsync(name) finds an album.
AlbumExists(name) == \E i \in DOMAIN media.albums : media.albums[i].name = name

\* The handlers of the storage flows leave the export's state alone; the
\* export leaves theirs alone.
ExportFrame ==
  UNCHANGED <<storage, now, screen, children, homeLoad, homeDelete, id, form,
              loadEdit, submit, del, failBudget, call, migrations, lastWriter>>

\* The forms the Export button is pressed with: those of Save and a second
\* person's, so that exports for two names occur.
ExportInputs == Inputs \cup {RawAl}

\* handleSubmit(...) with a form the schema rejects: the export body is not
\* called.
ExportInvalid ==
  /\ screen = "form" /\ del.pc # "alert" /\ ~export.isExporting
  /\ \E raw \in ExportInputs :
       /\ ~childSchema(raw).success
       /\ formErrors' = childSchema(raw).errors
  /\ ExportFrame
  /\ UNCHANGED <<ops, failures, export, media>>

\* The export body called whatever the form holds, a rejected form's values
\* as they were typed.
ExportUnvalidated(serial) ==
  /\ screen = "form" /\ del.pc # "alert" /\ ~export.isExporting
  /\ export.pc = "idle"
  /\ ops < MaxOps
  /\ MayStart(serial)
  /\ \E raw \in ExportInputs :
       export' = [IdleExport EXCEPT !.pc = "delay", !.isExporting = TRUE,
                                    !.data = SchemaData(raw),
                                    !.before = media]
  /\ formErrors' = {}
  /\ ops' = ops + 1
  /\ ExportFrame
  /\ UNCHANGED <<failures, media>>

\* The Export button with a form the schema accepts: setIsExporting(true),
\* setCaptureData(data), and the body runs to its first await.
Export(serial) ==
  /\ screen = "form" /\ del.pc # "alert" /\ ~export.isExporting
  /\ export.pc = "idle"
  /\ ops < MaxOps
  /\ MayStart(serial)
  /\ \E raw \in ExportInputs :
       /\ childSchema(raw).success
       /\ export' = [IdleExport EXCEPT !.pc = "delay", !.isExporting = TRUE,
                                       !.data = childSchema(raw).data,
                                       !.before = media]
  /\ formErrors' = {}
  /\ ops' = ops + 1
  /\ ExportFrame
  /\ UNCHANGED <<failures, media>>

\* The body has returned and the finally block is missing: the flag stays set.
ExportReturnedFlagLeft(outcome, alert) ==
  export' = [IdleExport EXCEPT !.data = export.data, !.album = export.album,
                               !.before = export.before, !.isExporting = TRUE,
                               !.result = outcome, !.alerts = {alert}]

\* The body has returned; finally { setIsExporting(false) }.
ExportReturned(outcome, alert) ==
  export' = [IdleExport EXCEPT !.data = export.data, !.album = export.album,
                               !.before = export.before,
                               !.result = outcome, !.alerts = {alert}]

\* The handler dies on the error: no notice, and the flag stays set.
ExportCatchMissing == export' = [export EXCEPT !.pc = "crashed"]

\* catch (error) { Alert.alert("Error", "Could not export the PDF and image.") }
ExportCatch == ExportReturned("error", "Could not export the PDF and image.")

\* await new Promise(resolve => setTimeout(resolve, 30)), then the test of
\* viewShotRef.current (the ref of the render that made this closure may have
\* been detached since).
ExportDelay ==
  /\ export.pc = "delay"
  /\ \E ready \in BOOLEAN :
       IF ready THEN export' = [export EXCEPT !.pc = "capture"] ELSE ExportCatch
  /\ ExportFrame
  /\ UNCHANGED <<formErrors, ops, failures, media>>

\* await captureRef(viewShotRef, ...), then sanitizeForFileSystem.
ExportCapture ==
  /\ export.pc = "capture"
  /\ \E fail \in Outcomes :
       /\ Failed(fail)
       /\ IF fail THEN ExportCatch /\ UNCHANGED media
          ELSE /\ media' = [media EXCEPT !.captures = @ + 1]
               /\ export' =
                    [export EXCEPT
                       !.pc = "permission",
                       !.album = AlbumName(sanitizeForFileSystem(export.data.fullName))]
  /\ ExportFrame
  /\ UNCHANGED <<formErrors, ops>>

\* await MediaLibrary.requestPermissionsAsync()
ExportPermission ==
  /\ export.pc = "permission"
  /\ \E fail \in Outcomes :
       /\ Failed(fail)
       /\ IF fail THEN ExportCatch
          ELSE \E granted \in BOOLEAN :
                 IF granted THEN export' = [export EXCEPT !.pc = "createAsset"]
                 ELSE ExportReturned("denied",
                        "Please allow photo library access to save the image.")
  /\ ExportFrame
  /\ UNCHANGED <<formErrors, ops, media>>

\* await MediaLibrary.createAssetAsync(shotUri)
ExportCreateAsset ==
  /\ export.pc = "createAsset"
  /\ \E fail \in Outcomes :
       /\ Failed(fail)
       /\ IF fail THEN ExportCatch /\ UNCHANGED media
          ELSE /\ media' = [media EXCEPT !.assets = @ + 1]
               /\ export' = [export EXCEPT !.pc = "getAlbum"]
  /\ ExportFrame
  /\ UNCHANGED <<formErrors, ops>>

\* await MediaLibrary.getAlbumAsync(albumName)
ExportGetAlbum ==
  /\ export.pc = "getAlbum"
  /\ \E fail \in Outcomes :
       /\ Failed(fail)
       /\ IF fail THEN ExportCatch
          ELSE export' = [export EXCEPT
                            !.pc = IF AlbumExists(export.album)
                                   THEN "addAssets" ELSE "createAlbum"]
  /\ ExportFrame
  /\ UNCHANGED <<formErrors, ops, media>>

\* await MediaLibrary.createAlbumAsync(albumName, asset, false); the notice
ExportCreateAlbum ==
  /\ export.pc = "createAlbum"
  /\ \E fail \in Outcomes :
       /\ Failed(fail)
       /\ IF fail THEN ExportCatch /\ UNCHANGED media
          ELSE /\ media' = [media EXCEPT
                              !.albums = Append(@, [name |-> export.album,
                                                    assets |-> 1]),
                              !.saved = Append(@, export.album)]
               /\ ExportReturned("ok", "Image saved to Photos album")
  /\ ExportFrame
  /\ UNCHANGED <<formErrors, ops>>

\* await MediaLibrary.addAssetsToAlbumAsync([asset], album, false); the notice
ExportAddAssets ==
  /\ export.pc = "addAssets"
  /\ \E fail \in Outcomes :
       /\ Failed(fail)
       /\ IF fail THEN ExportCatch /\ UNCHANGED media
          ELSE /\ media' =
                    [media EXCEPT
                       !.albums =
                          [i \in DOMAIN @ |->
                             IF @[i].name = export.album
                             THEN [@[i] EXCEPT !.assets = @ + 1] ELSE @[i]],
                       !.saved = Append(@, export.album)]
               /\ ExportReturned("ok", "Image saved to Photos album")
  /\ ExportFrame
  /\ UNCHANGED <<formErrors, ops>>

\* ------------------------------------------------------ the specifications
\* The awaits of all handlers interleave freely; every storage call returns.
Next ==
  \/ Refresh(FALSE) \/ LoadGetList \/ LoadGetLegacy \/ LoadSetList
  \/ LoadRemoveLegacy
  \/ AskDelete \/ CancelDelete \/ ConfirmDelete(FALSE) \/ DeleteSetList
  \/ OpenAdd \/ OpenEdit(FALSE) \/ Back(FALSE) \/ EditGetList
  \/ SubmitInvalid \/ Submit(FALSE) \/ SubmitGetList \/ SubmitSetList
  \/ SubmitGetLegacy \/ SubmitSetMigrated \/ SubmitRemoveLegacy
  \/ AskFormDelete \/ CancelFormDelete \/ ConfirmFormDelete(FALSE)
  \/ DelGetList \/ DelSetList

Spec == Init /\ [][Next]_vars

\* One user action at a time: a handler starts only when none is in flight;
\* up to MaxFailures storage calls throw.
NextSerial ==
  \/ Refresh(TRUE) \/ LoadGetList \/ LoadGetLegacy \/ LoadSetList
  \/ LoadRemoveLegacy
  \/ AskDelete \/ CancelDelete \/ ConfirmDelete(TRUE) \/ DeleteSetList
  \/ OpenAdd \/ OpenEdit(TRUE) \/ Back(TRUE) \/ EditGetList
  \/ SubmitInvalid \/ Submit(TRUE) \/ SubmitGetList \/ SubmitSetList
  \/ SubmitGetLegacy \/ SubmitSetMigrated \/ SubmitRemoveLegacy
  \/ AskFormDelete \/ CancelFormDelete \/ ConfirmFormDelete(TRUE)
  \/ DelGetList \/ DelSetList

SpecSerial == InitFailing /\ [][NextSerial]_vars

\* One user action at a time, with a failing call in each of two flows.
SpecSerialAgain == InitFailingAgain /\ [][NextSerial]_vars

\* One user action at a time on a store that may hold two records.
SpecSerialUsed == InitUsed /\ [][NextSerial]_vars

\* The steps that follow an await: the awaited call has returned or thrown and
\* the handler goes on.
Continuations ==
  {"LoadGetList", "LoadGetLegacy", "LoadSetList", "LoadRemoveLegacy",
   "DeleteSetList", "EditGetList", "SubmitGetList", "SubmitSetList",
   "SubmitGetLegacy", "SubmitSetMigrated", "SubmitRemoveLegacy", "DelGetList",
   "DelSetList", "ExportDelay", "ExportCapture", "ExportPermission",
   "ExportCreateAsset", "ExportGetAlbum", "ExportCreateAlbum", "ExportAddAssets"}

Continue(a) ==
  CASE a = "LoadGetList" -> LoadGetList
    [] a = "LoadGetLegacy" -> LoadGetLegacy
    [] a = "LoadSetList" -> LoadSetList
    [] a = "LoadRemoveLegacy" -> LoadRemoveLegacy
    [] a = "DeleteSetList" -> DeleteSetList
    [] a = "EditGetList" -> EditGetList
    [] a = "SubmitGetList" -> SubmitGetList
    [] a = "SubmitSetList" -> SubmitSetList
    [] a = "SubmitGetLegacy" -> SubmitGetLegacy
    [] a = "SubmitSetMigrated" -> SubmitSetMigrated
    [] a = "SubmitRemoveLegacy" -> SubmitRemoveLegacy
    [] a = "DelGetList" -> DelGetList
    [] a = "DelSetList" -> DelSetList
    [] a = "ExportDelay" -> ExportDelay
    [] a = "ExportCapture" -> ExportCapture
    [] a = "ExportPermission" -> ExportPermission
    [] a = "ExportCreateAsset" -> ExportCreateAsset
    [] a = "ExportGetAlbum" -> ExportGetAlbum
    [] a = "ExportCreateAlbum" -> ExportCreateAlbum
    [] a = "ExportAddAssets" -> ExportAddAssets

\* One user action at a time, the export among them, storage and media calls
\* that may throw, and every awaited call returning or throwing in the end.
NextFlows ==
  \/ NextSerial
  \/ ExportInvalid \/ Export(TRUE) \/ ExportDelay \/ ExportCapture
  \/ ExportPermission \/ ExportCreateAsset \/ ExportGetAlbum
  \/ ExportCreateAlbum \/ ExportAddAssets

SpecFlows ==
  /\ InitFailing
  /\ [][NextFlows]_vars
  /\ \A a \in Continuations : WF_vars(Continue(a))

\* The user who opens the form and presses Export, time and again: the list
\* screen's loads, the way to the form and back, and the export, with media
\* calls that may throw.  (exportPdfAndImage reads the form's values and the
\* device's media and nothing the other handlers write.)
NextExport ==
  \/ LoadGetList \/ LoadGetLegacy \/ LoadSetList \/ LoadRemoveLegacy
  \/ OpenAdd \/ OpenEdit(TRUE) \/ EditGetList \/ Back(TRUE)
  \/ ExportInvalid \/ Export(TRUE) \/ ExportDelay \/ ExportCapture
  \/ ExportPermission \/ ExportCreateAsset \/ ExportGetAlbum
  \/ ExportCreateAlbum \/ ExportAddAssets

SpecExport == InitFailing /\ [][NextExport]_vars

\* --------------------------------------- the screen's functions on their own
\* The form screen is open in add mode on a fresh install and no handler
\* runs; one function of the screen is called with one argument.
Calling(fn, args) ==
  /\ storage = [children_list |-> Null, child_profile |-> Null]
  /\ now = 1
  /\ screen = "form"
  /\ children = <<>>
  /\ homeLoad = IdleLoad
  /\ homeDelete = IdleHomeDelete
  /\ id = ""
  /\ form = DefaultForm
  /\ formErrors = {}
  /\ loadEdit = IdleLoadEdit
  /\ submit = IdleSubmit
  /\ del = IdleDel
  /\ ops = 0
  /\ failBudget = 0
  /\ failures = 0
  /\ migrations = 0
  /\ lastWriter = "none"
  /\ export = IdleExport
  /\ media = NoMedia
  /\ call \in {[fn |-> fn, arg |-> a, out |-> Null, done |-> FALSE] : a \in args}

\* The call returns v; nothing else changes.
Returns(v) ==
  /\ call' = [call EXCEPT !.out = v, !.done = TRUE]
  /\ UNCHANGED <<storage, now, screen, children, homeLoad, homeDelete, id, form,
                 loadEdit, submit, del, ops, failBudget, failures, migrations,
                 lastWriter, export, media>>

\* All texts of at most n characters of the alphabet.
RECURSIVE Texts(_, _)
Texts(alphabet, n) ==
  IF n = 0 THEN {<<>>}
  ELSE LET shorter == Texts(alphabet, n - 1)
       IN  shorter \cup {Append(t, c) : t \in shorter, c \in alphabet}

\* n times the character c.
Filler(c, n) == [i \in 1..n |-> c]

\* The characters of names: a capital, a digit and a sign the pattern keeps
\* (the filler is a small letter), a space and a dot, which it replaces.
NameAlphabet == {"Z", "7", "_", " ", "."}

\* The fullNames the schema accepts that are made of a typed start, a filler
\* that brings the name to the cut at MaxFileNameLen or leaves it short, and a
\* typed end.
Names ==
  {n \in {pre \o Filler("a", k) \o post :
            pre \in Texts(NameAlphabet, MaxTyped),
            post \in Texts(NameAlphabet, MaxTyped),
            k \in {0, MaxFileNameLen - 2, MaxFileNameLen}} :
     Len(n) >= MinNameLen}

\* sanitizeForFileSystem(data.fullName)
Sanitize ==
  /\ call.fn = "sanitizeForFileSystem" /\ ~call.done
  /\ Returns(sanitizeForFileSystem(call.arg))
  /\ UNCHANGED formErrors

InitSanitize == Calling("sanitizeForFileSystem", Names)

SpecSanitize == InitSanitize /\ [][Sanitize]_vars

\* The optional texts of a form: left untouched, empty, or typed.
OptionalTexts == {Undefined, Str(<<>>), Str(<<"n">>)}

\* A form with the name Al and no optional text, its numbers typed.
TypedForm(a, h, w) ==
  [RawAl EXCEPT !.age = Str(Text(a)), !.height = Str(Text(h)),
                !.weight = Str(Text(w))]

\* Ages, heights and weights in, at and one outside the schema's bounds: every
\* age with the heights and weights around the bounds, and every height with a
\* middle age and weight.
GridPoints ==
  (((MinAge - 1)..(MaxAge + 1))
     \X {MinHeight - 1, MinHeight, 110, MaxHeight, MaxHeight + 1}
     \X {MinWeight - 1, MinWeight, 18, 4 * MaxHeight})
  \cup ({5} \X ((MinHeight - 1)..(MaxHeight + 1)) \X {18})

\* Values of each field that meet the field's rule, and values that break it:
\* typed texts, numbers put there by reset(), fields left untouched.
GoodNames == {Str(<<"A", "l">>), Str(<<"A", " ">>)}
BadNames == {Str(<<"A">>), Str(<<>>)}
GoodAges == {Str(<<"0">>), Num(5), Str(<<"1", "8">>)}
BadAges == {Str(<<"-", "1">>), Str(<<"1", "9">>), Num(19), Undefined}
GoodHeights == {Str(<<"3", "0">>), Num(110), Str(<<"2", "5", "0">>)}
BadHeights == {Str(<<"2", "9">>), Str(<<"2", "5", "1">>), Undefined}
GoodWeights == {Str(<<"2">>), Num(18)}
BadWeights == {Str(<<"1">>), Undefined}
GoodNotes == {Undefined, Str(<<>>), Str(Filler("n", MaxNotesLen))}
BadNotes == {Str(Filler("n", MaxNotesLen + 1))}

LabelledForms ==
  [fullName : GoodNames \cup BadNames, age : GoodAges \cup BadAges,
   height : GoodHeights \cup BadHeights, weight : GoodWeights \cup BadWeights,
   gender : OptionalTexts, medicalNotes : GoodNotes \cup BadNotes]

\* Texts that denote a number, with the number, and texts that denote none.
NumberTexts ==
  {<<<<"7">>, 7>>, <<<<" ", "7">>, 7>>, <<<<"+", "7">>, 7>>,
   <<<<"0", "0", "7">>, 7>>, <<<<"1", "8">>, 18>>, <<<<"0">>, 0>>}
OtherTexts ==
  {<<>>, <<" ">>, <<"a">>, <<"7", "a">>, <<"-">>, <<"1", " ", "2">>,
   <<"s", "e", "v", "e", "n">>}

\* A form that is valid but for its number field f, which holds the text t.
TextForm(f, t) ==
  [[RawAl EXCEPT !.age = Str(<<"7">>), !.height = Str(<<"1", "1", "0">>),
                 !.weight = Str(<<"7">>)] EXCEPT ![f] = Str(t)]

\* Each number field in turn holds each text.
TextForms ==
  {TextForm(f, t) : f \in {"age", "height", "weight"},
                    t \in {nt[1] : nt \in NumberTexts} \cup OtherTexts}

Forms ==
  {TypedForm(g[1], g[2], g[3]) : g \in GridPoints} \cup LabelledForms \cup TextForms

\* The Save button pressed with the form call.arg: handleSubmit runs the
\* resolver, sets formState.errors, and calls onSubmit (which runs to its first
\* await) only with a form the schema accepts.
Validate ==
  /\ call.fn = "childSchema" /\ ~call.done
  /\ LET r == childSchema(call.arg)
     IN  /\ call' = [call EXCEPT !.out = r, !.done = TRUE]
         /\ formErrors' = r.errors
         /\ submit' = IF r.success
                       THEN [IdleSubmit EXCEPT !.pc = "getList", !.edit = FALSE,
                                               !.data = r.data]
                       ELSE submit
  /\ UNCHANGED <<storage, now, screen, children, homeLoad, homeDelete, id, form,
                 loadEdit, del, ops, failBudget, failures, migrations,
                 lastWriter, export, media>>

InitValidate == Calling("childSchema", Forms)

\* Save pressed once with one form, and the onSubmit call it starts.
NextValidate == Validate \/ SubmitGetList \/ SubmitSetList \/ SubmitGetLegacy

SpecValidate == InitValidate /\ [][NextValidate]_vars

\* value || placeholder, for an optional text of the record d
OrPlaceholder(d, k, placeholder) ==
  IF k \in DOMAIN d /\ d[k] # <<>> THEN d[k] ELSE placeholder

\* The texts the hidden capture card shows for captureData = d, field by
\* field.
captureCard(d) ==
  [fullName |-> IF Trim(d.fullName) # <<>> THEN Trim(d.fullName)
                ELSE <<"Name missing">>,
   age |-> Text(d.age),
   gender |-> OrPlaceholder(d, "gender", <<"-">>),
   height |-> Text(d.height),
   weight |-> Text(d.weight),
   medicalNotes |-> OrPlaceholder(d, "medicalNotes", <<"None provided">>)]

\* The texts buildPdfHtml(d) puts into the document, field by field.
buildPdfHtml(d) ==
  [fullName |-> d.fullName,
   age |-> Text(d.age),
   gender |-> OrPlaceholder(d, "gender", <<"-">>),
   height |-> Text(d.height),
   weight |-> Text(d.weight),
   medicalNotes |-> OrPlaceholder(d, "medicalNotes", <<"None provided">>)]

\* The records the schema produces from forms whose name is typed over a
\* letter and the space, with the youngest and a middle age.
Profiles ==
  {childSchema(raw).data :
     raw \in {r \in {[RawAl EXCEPT !.fullName = Str(name), !.age = Str(Text(a)),
                                   !.gender = g, !.medicalNotes = m] :
                        name \in Texts({"A", " "}, MaxTyped),
                        a \in {MinAge, 5},
                        g \in OptionalTexts, m \in OptionalTexts} :
              childSchema(r).success}}

\* The card and the document of one record.
Render ==
  /\ call.fn = "render" /\ ~call.done
  /\ Returns([card |-> captureCard(call.arg), document |-> buildPdfHtml(call.arg)])
  /\ UNCHANGED formErrors

InitRender == Calling("render", Profiles)

SpecRender == InitRender /\ [][Render]_vars

\* ------------------------------------------------------------------ claims
\* The list stored under children_list ([] when there is none).
StoredList ==
  IF Truthy(storage.children_list) THEN JSONparse(storage.children_list) ELSE <<>>

Records(list) == {list[i] : i \in 1..Len(list)}

\* The form shows the fields of data: the texts as they are, the numbers as
\* numbers.
FormShows(data) ==
  /\ form.fullName = Str(data.fullName)
  /\ form.age = Num(data.age)
  /\ form.height = Num(data.height)
  /\ form.weight = Num(data.weight)
  /\ form.gender = Str(data.gender)
  /\ form.medicalNotes = Str(data.medicalNotes)

LegacyOnly(st) == st.children_list = Null /\ st.child_profile # Null

FailureNotices ==
  {"Failed to save data", "Child profile not found",
   "Failed to delete child profile", "No children found"}

\* C1: in every reachable state every record of the list stored under
\* children_list has a non-empty id and no two records of it share an id.
C1_UniqueNonEmptyIds ==
  /\ \A i \in 1..Len(StoredList) : StoredList[i].id # ""
  /\ \A i, j \in 1..Len(StoredList) : i # j => StoredList[i].id # StoredList[j].id

\* C2: every stored record meets the range and length constraints, and the
\* data an onSubmit call is about to write has passed them before any write.
C2_StoredRecordsValid ==
  /\ \A c \in Records(StoredList) : MeetsConstraints(c)
  /\ submit.pc # "idle" => MeetsConstraints(submit.data)
  /\ \A c \in Records(submit.childrenList) \cup Records(submit.updatedList) :
       MeetsConstraints(c)

C2_Witness ==
  /\ submit.pc = "idle" /\ submit.result = "ok"
  /\ \E c \in Records(StoredList) :
       c.id = submit.savedId /\ Fields(c) = submit.data

\* C3: with one operation at a time, a write of children_list by a create, an
\* update or a delete keeps every record that was stored and that the
\* operation does not target (the operation works on the list as stored,
\* not on a screen's earlier snapshot).
KeepsOthers(target) ==
  \A c \in Records(StoredList) : c.id # target => c \in Records(StoredList')

C3_WritesKeepOtherRecords ==
  [][/\ (homeDelete.pc = "setList" /\ homeDelete'.result = "ok"
           /\ homeDelete'.pc = "idle")
          => KeepsOthers(homeDelete.id)
     /\ (del.pc = "setList" /\ del'.pc = "idle" /\ del'.result = "ok")
          => KeepsOthers(del.target)
     /\ (submit.pc = "setList" /\ submit'.pc = "getLegacy")
          => KeepsOthers(IF submit.edit THEN id ELSE "")
     /\ (submit.pc = "setMigrated" /\ submit'.pc = "removeLegacy")
          => KeepsOthers("")]_vars

\* C4: when the edit screen's update and delete of a record both read the
\* list before either writes it, the stored list after both have returned is
\* the later writer's list (its own change applied to the list it read), the
\* earlier writer's change is not in it, and both flows gave success notices
\* only.
C4_LaterWriteWins ==
  (/\ submit.pc = "idle" /\ submit.result = "ok" /\ submit.edit
   /\ del.pc = "idle" /\ del.result = "ok")
  =>
    /\ ("submit" \in del.staleBy /\ lastWriter = "del") =>
          /\ StoredList = SelectSeq(del.read, LAMBDA c : c.id # del.target)
          /\ WithId(submit.data, submit.savedId) \notin Records(StoredList)
          /\ (submit.alerts \cup del.alerts) \cap FailureNotices = {}
    /\ ("del" \in submit.staleBy /\ lastWriter = "submit") =>
          /\ Len(StoredList) = Len(submit.read)
          /\ \A i \in 1..Len(StoredList) :
               StoredList[i] =
                 IF i = findIndex(submit.read, submit.savedId)
                 THEN WithId(submit.data, submit.savedId)
                 ELSE submit.read[i]
          /\ del.target \in Ids(StoredList)
          /\ (submit.alerts \cup del.alerts) \cap FailureNotices = {}

C4_Witness ==
  /\ submit.pc = "idle" /\ submit.result = "ok" /\ submit.edit
  /\ del.pc = "idle" /\ del.result = "ok"
  /\ "submit" \in del.staleBy /\ lastWriter = "del"

\* C5: under no interleaving of the handlers (every storage call returning)
\* does children_list hold two records that come from the one child_profile
\* record.
C5_OneLegacyCopy ==
  Cardinality({i \in 1..Len(StoredList) : Fields(StoredList[i]) = LegacyChild}) <= 1

\* C6: the child_profile record is migrated into children_list at most once,
\* also when storage calls fail, and only loadChildren and an add-mode
\* onSubmit migrate or remove it.
C6_MigratedOnceByListPaths ==
  [][/\ migrations' <= 1
     /\ (migrations' # migrations \/ storage'.child_profile # storage.child_profile)
          => \/ homeLoad.pc \in {"setList", "removeLegacy"}
             \/ submit.pc \in {"setMigrated", "removeLegacy"} /\ ~submit.edit]_vars

\* C7: from a storage holding only child_profile, two list loads in a row
\* return the same one-element list (the legacy fields and one id), and
\* child_profile is absent once the first has returned.
C7_MigrationIdempotent ==
  /\ (homeLoad.pc = "idle" /\ homeLoad.result = "ok" /\ homeLoad.before # Null
        /\ LegacyOnly(homeLoad.before))
       => /\ storage.child_profile = Null
          /\ Len(homeLoad.returned) = 1
          /\ Fields(homeLoad.returned[1]) = JSONparse(homeLoad.before.child_profile)
          /\ homeLoad.returned[1].id # ""
  /\ (homeLoad.pc = "idle" /\ homeLoad.result = "ok" /\ homeLoad.prev # Null
        /\ LegacyOnly(homeLoad.prev.before))
       => /\ homeLoad.returned = homeLoad.prev.returned
          /\ Len(homeLoad.returned) = 1
          /\ homeLoad.before.child_profile = Null

C7_Witness ==
  /\ homeLoad.pc = "idle" /\ homeLoad.result = "ok" /\ homeLoad.prev # Null
  /\ LegacyOnly(homeLoad.prev.before)

\* C8: with every storage call returning, a list load that runs alone ends
\* in no failure: it returns the stored list when there is one, the
\* one-element migrated list when there is only child_profile, and the empty
\* list when there is neither.
C8_LoadReturns ==
  (homeLoad.pc = "idle" /\ homeLoad.result # "none" /\ homeLoad.before # Null)
  => /\ homeLoad.result = "ok"
     /\ IF Truthy(homeLoad.before.children_list)
        THEN homeLoad.returned = JSONparse(homeLoad.before.children_list)
        ELSE IF Truthy(homeLoad.before.child_profile)
        THEN /\ Len(homeLoad.returned) = 1
             /\ Fields(homeLoad.returned[1]) =
                  JSONparse(homeLoad.before.child_profile)
        ELSE homeLoad.returned = <<>>

C8_Witness ==
  /\ homeLoad.pc = "idle" /\ homeLoad.result = "ok" /\ homeLoad.before # Null
  /\ LegacyOnly(homeLoad.before)
  /\ Len(homeLoad.returned) = 1

\* C9: an edit-mode load of the id a create has just assigned shows the
\* created record: every field equal to the created input.
C9_CreateThenLoad ==
  (/\ screen = "form" /\ loadEdit.pc = "idle"
   /\ loadEdit.result \notin {"none", "error"}
   /\ submit.pc = "idle" /\ submit.result = "ok" /\ ~submit.edit
   /\ id = submit.savedId)
  => loadEdit.result = "loaded" /\ FormShows(submit.data)

\* C10: an update of the record with id X writes a list of the same length
\* with newData and id X at X's index, and a lookup of X after it returns
\* newData.
C10_UpdateInPlace ==
  [][/\ (submit.pc = "setList" /\ submit'.pc = "getLegacy" /\ submit.edit)
          => /\ Len(StoredList') = Len(StoredList)
             /\ findIndex(StoredList, id) # 0
             /\ findIndex(StoredList', id) = findIndex(StoredList, id)
             /\ StoredList'[findIndex(StoredList, id)] = WithId(submit.data, id)
     /\ (/\ loadEdit.pc = "getList" /\ loadEdit'.pc = "idle"
         /\ loadEdit'.result # "error"
         /\ submit.pc = "idle" /\ submit.result = "ok" /\ submit.edit
         /\ id = submit.savedId /\ screen = "form")
          => /\ loadEdit'.result = "loaded"
             /\ FormShows(submit.data)']_vars

C10_Witness ==
  /\ screen = "form" /\ loadEdit.pc = "idle" /\ loadEdit.result = "loaded"
  /\ submit.pc = "idle" /\ submit.result = "ok" /\ submit.edit
  /\ id = submit.savedId
  /\ FormShows(submit.data)

\* C11: an edit-mode onSubmit whose id is on no record of the stored list
\* returns with the "Child profile not found" notice, no success notice and no
\* write: storage is as it was when the call started.
C11_UpdateMissingId ==
  [][/\ (submit.pc = "idle" /\ submit'.pc = "getList") => storage' = storage
     /\ (submit.pc = "getList" /\ submit.edit /\ id \notin Ids(StoredList)
           /\ submit' # submit)
          => /\ submit'.pc = "idle"
             /\ submit'.result = "notfound"
             /\ "Child profile not found" \in submit'.alerts
             /\ submit'.alerts \cap {"Child profile updated!", "Child profile saved!"} = {}
             /\ storage' = storage]_vars

C11_Witness ==
  /\ submit.pc = "idle" /\ submit.edit /\ submit.result = "notfound"
  /\ id \notin Ids(StoredList)

\* C12: a delete of id X (by either screen) from a stored list of length n
\* that holds X writes a list of length n - 1 with no record of id X.
C12_DeleteRemovesOne ==
  [][/\ (del.pc = "setList" /\ del'.pc = "idle" /\ del'.result = "ok"
           /\ del.target \in Ids(StoredList))
          => /\ Len(StoredList') = Len(StoredList) - 1
             /\ del.target \notin Ids(StoredList')
     /\ (homeDelete.pc = "setList" /\ homeDelete'.pc = "idle"
           /\ homeDelete'.result = "ok" /\ homeDelete.id \in Ids(StoredList))
          => /\ Len(StoredList') = Len(StoredList) - 1
             /\ homeDelete.id \notin Ids(StoredList')]_vars

\* C13: a delete whose id is on no record of the stored list ends in a
\* not-found failure, not in success, and leaves the stored list as it was.
C13_DeleteMissingId ==
  [][/\ (del.pc = "getList" /\ del' # del /\ del.target \notin Ids(StoredList))
          => /\ del'.pc = "idle"
             /\ del'.result \in {"notfound", "nolist"}
             /\ "Child profile deleted" \notin del'.alerts
             /\ storage' = storage
     /\ (homeDelete.pc = "setList" /\ homeDelete' # homeDelete
           /\ homeDelete.id \notin Ids(StoredList))
          => /\ homeDelete'.result # "ok"
             /\ StoredList' = StoredList]_vars

\* C14: a loadChildForEdit that finds no record with the id has shown a notice
\* and the form has been left.
C14_EditLoadMissingId ==
  (loadEdit.pc = "idle" /\ loadEdit.result \in {"notfound", "nolist"})
  => loadEdit.alerts # {} /\ screen # "form"

\* C15: a create (no migration having taken place and no storage call having
\* failed) gives its record an id that no record of the stored list has,
\* whatever the clock reads: the list grows by one record and the new id is
\* on that record alone.
C15_CreatesGetDistinctIds ==
  [][(submit.pc = "setList" /\ submit'.pc = "getLegacy" /\ ~submit.edit
        /\ migrations = 0 /\ failures = 0 /\ storage.child_profile = Null)
       => /\ submit.savedId \notin Ids(StoredList)
          /\ Len(StoredList') = Len(StoredList) + 1
          /\ Cardinality({i \in 1..Len(StoredList') :
                            StoredList'[i].id = submit.savedId}) = 1]_vars

\* C16: an add-mode onSubmit with no child_profile stored writes the stored
\* list with one record appended (the input's fields and an id) and writes
\* nothing more.
C16_CreateAppends ==
  [][/\ (submit.pc = "setList" /\ submit'.pc = "getLegacy" /\ ~submit.edit
           /\ storage.child_profile = Null)
          => /\ Len(StoredList') = Len(StoredList) + 1
             /\ SubSeq(StoredList', 1, Len(StoredList)) = StoredList
             /\ Fields(StoredList'[Len(StoredList')]) = submit.data
             /\ StoredList'[Len(StoredList')].id # ""
             /\ storage'.child_profile = Null
     /\ (submit.pc = "getLegacy" /\ ~submit.edit /\ storage.child_profile = Null
           /\ submit' # submit)
          => storage' = storage /\ submit'.pc = "idle"]_vars

C16_Witness ==
  /\ submit.pc = "idle" /\ submit.result = "ok" /\ ~submit.edit
  /\ migrations = 0 /\ lastWriter = "submit"
  /\ Len(StoredList) >= 2
  /\ StoredList[1] = EarlierChild
  /\ StoredList[Len(StoredList)] = WithId(submit.data, submit.savedId)

C18_FailureAppliesNothing ==
  [][failures' > failures
       => /\ children' = children
          /\ storage' = storage
          /\ (homeLoad.pc # "idle" /\ homeLoad.before # Null)
               => storage' = homeLoad.before
          /\ submit.pc \notin {"idle", "getList"} => StoredList' = submit.read]_vars

InFlight(f) == f.pc \notin {"idle", "alert"}

\* The handler has returned with an outcome.
Finished(f) == f.pc = "idle" /\ f.result # "none"

\* C19: every started operation (list load, edit load, create or update,
\* delete from the list screen, delete from the form, export) in the end
\* returns with a success or a failure outcome, given that each awaited storage
\* or media call returns or throws; a throwing call is caught by the handler.
C19_OperationsFinish ==
  /\ InFlight(homeLoad) ~> Finished(homeLoad)
  /\ InFlight(loadEdit) ~> Finished(loadEdit)
  /\ InFlight(submit) ~> Finished(submit)
  /\ InFlight(homeDelete) ~> Finished(homeDelete)
  /\ InFlight(del) ~> Finished(del)
  /\ InFlight(export) ~> Finished(export)

\* An export whose media call threw after the capture has returned with the
\* error outcome and its notice.
C19_Witness ==
  /\ failures = 1
  /\ media.captures = 1
  /\ Finished(export)
  /\ export.result = "error"
  /\ export.alerts = {"Could not export the PDF and image."}
  /\ ~export.isExporting

\* A step of the export: the call starts, goes on past an await, or returns.
ExportStep == export' # export \/ media' # media

\* The records the schema produces from the forms it accepts.
ValidatedRecords ==
  {childSchema(raw).data : raw \in {r \in ExportInputs : childSchema(r).success}}

\* The record d the export body was called with is one the schema produced.
ExportDataValid(d) ==
  d # Null => d \in ValidatedRecords /\ MeetsConstraints(d)

\* C21: the export body runs only with a record that passed validation, and no
\* step of an export (to success, to the permission notice, to the failure
\* notice) changes children_list or child_profile.
C21_ExportLeavesStore ==
  [][ExportStep => /\ storage' = storage
                   /\ ExportDataValid(export'.data)
                   /\ children' = children]_vars

\* An export has ended with the "Saved" notice while the storage holds a list.
C21_Witness ==
  /\ Finished(export)
  /\ export.result = "ok"
  /\ StoredList # <<>>
  /\ media.assets = 1

\* C22: an export that ends at the refused permission shows the permission
\* notice and leaves nothing behind: no asset and no album more than the call
\* found, and no image or document file written before the permission check.
C22_DeniedLeavesNothing ==
  (Finished(export) /\ export.result = "denied") =>
    /\ export.alerts = {"Please allow photo library access to save the image."}
    /\ media.assets = export.before.assets
    /\ media.albums = export.before.albums
    /\ media.captures = export.before.captures
    /\ media.documents = export.before.documents

\* C23: an export that ends with the "Saved" notice has produced both
\* artifacts: the image of the card, saved as an asset of the photo library,
\* and the print-formatted document.
C23_BothArtifacts ==
  (Finished(export) /\ export.result = "ok") =>
    /\ media.captures > export.before.captures
    /\ media.assets > export.before.assets
    /\ media.documents > export.before.documents

\* The albums of the library that bear the name n.
AlbumsNamed(n) == {i \in DOMAIN media.albums : media.albums[i].name = n}

\* The exports for album name n that ended with the "Saved" notice.
SavedCount(n) == Cardinality({i \in DOMAIN media.saved : media.saved[i] = n})

\* C24: for every album name "ChildGuardID - <sanitized fullName>" an export
\* has saved to or an album bears, the library holds exactly one album of that
\* name (created by the first such export, reused by the later ones), and the
\* number of its assets is the number of successful exports for that name.
C24_OneAlbumPerName ==
  \A n \in {media.saved[i] : i \in DOMAIN media.saved}
            \cup {media.albums[i].name : i \in DOMAIN media.albums} :
    /\ Cardinality(AlbumsNamed(n)) = 1
    /\ \A i \in AlbumsNamed(n) : media.albums[i].assets = SavedCount(n)

\* A second successful export for the same name has added its asset to the
\* album the first one created.
C24_Witness ==
  /\ Finished(export)
  /\ export.result = "ok"
  /\ Len(media.saved) = 2
  /\ Len(media.albums) = 1
  /\ media.albums[1].assets = 2

\* Every character outside [A-Za-z0-9-_] replaced by "_", one for one.
ReplaceEach(value) ==
  [i \in 1..Len(value) |-> IF value[i] \in FileNameChars THEN value[i] ELSE "_"]

\* The artifact name by the rule: replace one for one, cut at MaxFileNameLen,
\* the default name for an empty result.
ReferenceName(value) ==
  LET clean == ReplaceEach(value)
  IN  IF clean = <<>> THEN <<"c", "h", "i", "l", "d">>
      ELSE SubSeq(clean, 1, IF Len(clean) < MaxFileNameLen THEN Len(clean)
                            ELSE MaxFileNameLen)

\* The name is not empty, at most MaxFileNameLen long, and of kept characters.
WellFormedName(name) ==
  /\ Len(name) >= 1
  /\ Len(name) <= MaxFileNameLen
  /\ \A i \in 1..Len(name) : name[i] \in FileNameChars

\* C25: for every fullName, sanitizeForFileSystem returns the name by the
\* rule (one-for-one replacement, cut at 40, the default for an empty result),
\* and that name is well formed.
C25_SanitizeIsReference ==
  (call.fn = "sanitizeForFileSystem" /\ call.done) =>
    /\ call.out = ReferenceName(call.arg)
    /\ WellFormedName(call.out)

\* The half of C25 the function meets: its result is always well formed.
SanitizeWellFormed ==
  (call.fn = "sanitizeForFileSystem" /\ call.done) => WellFormedName(call.out)

\* C26: for every validated record the capture card and the document show
\* the same text in every field: name, age, gender or its placeholder, height,
\* weight, medical notes or their placeholder.
C26_CardEqualsDocument ==
  (call.fn = "render" /\ call.done) =>
    \A f \in {"fullName", "age", "gender", "height", "weight", "medicalNotes"} :
      call.out.card[f] = call.out.document[f]

\* The fields other than the name agree on every record.
OtherFieldsAgree ==
  (call.fn = "render" /\ call.done) =>
    \A f \in {"age", "gender", "height", "weight", "medicalNotes"} :
      call.out.card[f] = call.out.document[f]

\* The validation of the form call.arg has returned.
Validated == call.fn = "childSchema" /\ call.done

\* The fields of the typed numbers a, h, w that lie outside age 0..18,
\* height 30..250, weight 2 and more.
OutOfRange(a, h, w) ==
  (IF a < 0 \/ a > 18 THEN {"age"} ELSE {})
    \cup (IF h < 30 \/ h > 250 THEN {"height"} ELSE {})
    \cup (IF w < 2 THEN {"weight"} ELSE {})

\* C27: with a name of two characters, validation succeeds for every integer
\* age in 0..18, height in 30..250 and weight of 2 or more; for age -1 or 19,
\* height 29 or 251, or weight 1 it fails, and the errors are keyed by exactly
\* the fields that are out of range.
C27_RangesAccepted ==
  Validated =>
    \A g \in GridPoints :
      call.arg = TypedForm(g[1], g[2], g[3]) =>
        /\ call.out.errors = OutOfRange(g[1], g[2], g[3])
        /\ call.out.success = (OutOfRange(g[1], g[2], g[3]) = {})
        /\ call.out.success =>
             /\ call.out.data.age = g[1]
             /\ call.out.data.height = g[2]
             /\ call.out.data.weight = g[3]

\* The form with height 29, one under the bound, and the oldest age and the
\* lowest weight allowed, has failed with the height error alone.
C27_Witness ==
  /\ Validated
  /\ call.arg = TypedForm(18, 29, 2)
  /\ call.out.errors = {"height"}
  /\ ~call.out.success

\* The number n meets the range of the number field f.
InRange(f, n) ==
  CASE f = "age" -> n >= 0 /\ n <= 18
    [] f = "height" -> n >= 30 /\ n <= 250
    [] f = "weight" -> n >= 2

\* A text that denotes a number is range-checked, and saved, as that number.
NumberTextsCoerced ==
  Validated =>
    \A f \in {"age", "height", "weight"} : \A nt \in NumberTexts :
      call.arg = TextForm(f, nt[1]) =>
        /\ call.out.success = InRange(f, nt[2])
        /\ call.out.success => call.out.data[f] = nt[2]
        /\ ~call.out.success => call.out.errors = {f}

\* A text of the set texts in a number field fails the validation as a whole,
\* with an error for that field and no record.
TextsRejected(texts) ==
  Validated =>
    \A f \in {"age", "height", "weight"} : \A t \in texts :
      call.arg = TextForm(f, t) =>
        /\ ~call.out.success
        /\ f \in call.out.errors
        /\ call.out.data = Null
        /\ submit = IdleSubmit

\* C28: a number field given as a text that denotes a number is validated as
\* that number ("7" as 7), and every text that denotes no number, in age,
\* height or weight, fails the validation as a whole with an error for that
\* field and no record.
C28_TextCoercion == NumberTextsCoerced /\ TextsRejected(OtherTexts)

\* The part of C28 the schema meets: the texts that are not blank.
NonBlankTextsRejected == TextsRejected({t \in OtherTexts : Trim(t) # <<>>})

\* The fields of the labelled form raw whose value breaks the field's rule.
Offending(raw) ==
  {f \in {"fullName", "age", "height", "weight", "medicalNotes"} :
     raw[f] \in (CASE f = "fullName" -> BadNames
                   [] f = "age" -> BadAges
                   [] f = "height" -> BadHeights
                   [] f = "weight" -> BadWeights
                   [] f = "medicalNotes" -> BadNotes)}

\* The input {fullName: "A", age: 5, height: 110, weight: 18}.
ShortNameInput ==
  [fullName |-> Str(<<"A">>), age |-> Num(5), height |-> Num(110),
   weight |-> Num(18), gender |-> Undefined, medicalNotes |-> Undefined]

\* C29: the errors are keyed by exactly the fields that break their rule, one
\* for each and none for a field that meets its rule; a form with an error
\* gives no record, onSubmit is not called and the storage is not written.
\* The input {fullName: "A", age: 5, height: 110, weight: 18} fails with the
\* fullName error alone.
C29_ErrorsPerField ==
  (Validated /\ call.arg \in LabelledForms) =>
    /\ call.out.errors = Offending(call.arg)
    /\ formErrors = Offending(call.arg)
    /\ call.out.success = (Offending(call.arg) = {})
    /\ Offending(call.arg) # {} =>
         /\ call.out.data = Null
         /\ submit = IdleSubmit
         /\ storage = [children_list |-> Null, child_profile |-> Null]
    /\ call.arg = ShortNameInput => call.out.errors = {"fullName"}

\* The input {fullName: "A", age: 5, height: 110, weight: 18} has failed with
\* the fullName error, and nothing was written.
C29_Witness ==
  /\ Validated
  /\ call.arg = ShortNameInput
  /\ formErrors = {"fullName"}
  /\ call.out.data = Null
  /\ storage = [children_list |-> Null, child_profile |-> Null]

\* The name and the three numbers of the labelled form raw meet their rules.
RequiredValid(raw) ==
  /\ raw.fullName \in GoodNames
  /\ raw.age \in GoodAges
  /\ raw.height \in GoodHeights
  /\ raw.weight \in GoodWeights

\* The notes are present and longer than 300 characters.
NotesTooLong(raw) ==
  raw.medicalNotes.t = "string" /\ Len(raw.medicalNotes.s) > 300

\* C30: with the required fields valid, validation succeeds whether gender and
\* medicalNotes are absent, empty or given, unless medicalNotes is present and
\* longer than 300 characters, which alone gives the medicalNotes error; gender
\* never gives an error.
C30_OptionalFields ==
  (Validated /\ call.arg \in LabelledForms) =>
    /\ "gender" \notin call.out.errors
    /\ ("medicalNotes" \in call.out.errors) = NotesTooLong(call.arg)
    /\ RequiredValid(call.arg) =>
         /\ call.out.success = ~NotesTooLong(call.arg)
         /\ call.out.errors \subseteq {"medicalNotes"}

\* A form with valid required fields and both optional fields untouched has
\* passed, and its record holds neither optional key.
C30_Witness ==
  /\ Validated
  /\ RequiredValid(call.arg)
  /\ call.arg.gender = Undefined
  /\ call.arg.medicalNotes = Undefined
  /\ call.out.success
  /\ DOMAIN call.out.data = {"fullName", "age", "height", "weight"}

\* The storage st holds the legacy profile's data: under child_profile, or as
\* a record of children_list (with whatever id).
HoldsLegacy(st) ==
  \/ st.child_profile # Null /\ JSONparse(st.child_profile) = LegacyChild
  \/ /\ st.children_list # Null
     /\ \E c \in Records(JSONparse(st.children_list)) : Fields(c) = LegacyChild

\* A list load or an add-mode submit is between two of its storage calls.
MigrationFlowRuns ==
  homeLoad.pc # "idle" \/ (submit.pc # "idle" /\ ~submit.edit)

\* C31: while a list load or an add-mode submit runs alone, no step of it,
\* a step whose storage call fails included, loses the legacy profile's data:
\* if the storage held it before the step, under child_profile or as a record
\* of children_list, it holds it after the step; and child_profile is removed
\* only when children_list already holds the record.
C31_LegacyDataKept ==
  [][MigrationFlowRuns =>
       /\ HoldsLegacy(storage) => HoldsLegacy(storage')
       /\ (storage.child_profile # Null /\ storage'.child_profile = Null) =>
            \E c \in Records(StoredList) : Fields(c) = LegacyChild]_vars

\* A list load has written the list with the migrated record and then failed
\* at the removal: the data is in both places.
C31_Witness ==
  /\ failures = 1
  /\ homeLoad.pc = "idle" /\ migrations = 1
  /\ storage.child_profile = Json(LegacyChild)
  /\ \E c \in Records(StoredList) : Fields(c) = LegacyChild

\* An add-mode submit ends its migration: removeItem succeeds and onSubmit
\* returns through router.back().
SubmitMigrationEnds ==
  submit.pc = "removeLegacy" /\ ~submit.edit /\ submit'.pc = "idle" /\ submit'.result = "ok"

\* The stored list after the step is the list the submit read, then the new
\* record, then one record with the legacy profile's fields; child_profile is
\* absent.
MigratedBehindNew ==
  LET list == JSONparse(storage'.children_list)
  IN  /\ storage'.child_profile = Null
      /\ Len(list) = Len(submit.read) + 2
      /\ SubSeq(list, 1, Len(submit.read)) = submit.read
      /\ list[Len(list) - 1] = WithId(submit.data, submit.savedId)
      /\ Fields(list[Len(list)]) = JSONparse(storage.child_profile)

MigratedIdIsNew ==
  LET list == JSONparse(storage'.children_list)
  IN  list[Len(list)].id \notin Ids(submit.read) \cup {submit.savedId}

\* C32: an add-mode submit that runs to completion while child_profile
\* exists leaves children_list equal to the list it read, followed by the new
\* record and then the migrated legacy record, whose id differs from the new
\* record's id and from every id of the list it read; child_profile is absent.
C32_SubmitMigratesBehindNew ==
  [][SubmitMigrationEnds => MigratedBehindNew /\ MigratedIdIsNew]_vars

\* The part of C32 about contents and order, without the ids' distinctness.
SubmitMigrationContents ==
  [][SubmitMigrationEnds => MigratedBehindNew]_vars

\* The id of the migrated record differs from the id of the new record.
SubmitMigrationIdNotNew ==
  [][SubmitMigrationEnds =>
       LET list == JSONparse(storage'.children_list)
       IN  list[Len(list)].id # submit.savedId]_vars


SuccessNotices == {"Child profile saved!", "Child profile updated!"}

\* The notices issued by the current onSubmit, or by the last one.
SuccessIssued == submit.alerts \cap SuccessNotices # {}

\* onSubmit's first setItem of children_list has returned.
SubmitHasWritten ==
  \/ submit.pc \in {"getLegacy", "setMigrated", "removeLegacy"}
  \/ submit.pc = "idle" /\ submit.result = "ok"
  \/ submit.pc = "idle" /\ submit.result = "error" /\ lastWriter = "submit"

\* No onSubmit issues a success notice and "Failed to save data".
NeverBothNotices ==
  ~(SuccessIssued /\ "Failed to save data" \in submit.alerts)

\* C33: a success notice of a create or an update is issued only after that
\* operation's write of children_list has succeeded, and no operation issues
\* both a success notice and the "Failed to save data" notice.
C33_SuccessOnlyAfterWrite ==
  /\ SuccessIssued => SubmitHasWritten
  /\ NeverBothNotices

\* The step completes a delete of id X, from the form or from the list.
DeleteCompletes(X) ==
  \/ del.pc = "setList" /\ del'.pc = "idle" /\ del'.result = "ok" /\ X = id
  \/ /\ homeDelete.pc = "setList" /\ homeDelete'.pc = "idle"
     /\ homeDelete'.result = "ok" /\ X = homeDelete.id

\* The step is the write of a create or of a migration that gave id X to the
\* record it adds.
GeneratedAnew(X) ==
  \/ submit.pc = "setList" /\ ~submit.edit /\ submit.savedId = X
  \/ /\ submit.pc = "setMigrated"
     /\ submit.updatedList[Len(submit.updatedList)].id = X
  \/ homeLoad.pc = "setList" /\ homeLoad.migratedChild.id = X

\* An update reads a list that has no record with its id.
UpdateOfAbsent ==
  /\ submit.pc = "getList" /\ submit.edit /\ id \notin Ids(StoredList)
  /\ submit'.pc # "getList"

\* C34: with one operation at a time a deleted record is not resurrected: a
\* completed delete of id X leaves no record with id X in children_list; an
\* id that is not in children_list comes into it only by the write of a
\* create or of a migration that generated it; and an update of an id that is
\* not in the list ends in "not found" (or in a failed read) and writes
\* nothing.
C34_DeletedStaysDeleted ==
  [][/\ \A X \in {id, homeDelete.id} :
          DeleteCompletes(X) => X \notin Ids(StoredList')
     /\ \A X \in Ids(StoredList') \ Ids(StoredList) : GeneratedAnew(X)
     /\ UpdateOfAbsent =>
          storage' = storage /\ submit'.result \in {"notfound", "error"}]_vars

\* The part of C34 that holds: but for the write of the list screen's delete,
\* no step brings back an id.
OnlyListDeleteResurrects ==
  [][\A X \in Ids(StoredList') \ Ids(StoredList) :
       GeneratedAnew(X) \/ homeDelete.pc = "setList"]_vars

\* onSubmit's write of an update returns.
UpdateWrites ==
  submit.pc = "setList" /\ submit.edit /\ submit'.pc = "getLegacy"

\* handleDelete's write returns.
DeleteWrites ==
  del.pc = "setList" /\ del'.pc = "idle" /\ del'.result = "ok"

\* The records whose id is not X, in their order, are after the step what
\* they were before it, and what the operation read.
OthersUntouched(X, read) ==
  /\ FilterOut(StoredList', X) = FilterOut(StoredList, X)
  /\ FilterOut(StoredList, X) = FilterOut(read, X)

\* C35: an update or a delete of id X from the form screen, which reads the
\* stored list first, leaves every record whose id is not X unchanged in all
\* its fields, its id included, and leaves the order of those records
\* unchanged.
C35_OthersUntouched ==
  [][/\ UpdateWrites => OthersUntouched(id, submit.read)
     /\ DeleteWrites => OthersUntouched(id, del.read)]_vars

\* An update has been written to a list that holds another record too.
C35_Witness ==
  /\ submit.pc = "idle" /\ submit.edit /\ submit.result = "ok"
  /\ lastWriter = "submit"
  /\ submit.savedId \in Ids(StoredList)
  /\ \E c \in Records(StoredList) : c.id # submit.savedId

\* disabled={isExporting}: the Export button takes a press.
ExportEnabled == ~export.isExporting

\* C36: isExporting is true exactly while the export body is between its
\* start and its exit, so after any export has finished (image saved,
\* permission denied, capture view not ready, a failing capture or media
\* call) the flag is false and the Export button is enabled again.
C36_ExportingOnlyInFlight ==
  /\ export.isExporting <=> InFlight(export)
  /\ Finished(export) => ExportEnabled

\* A second export is under way after a first one that ended without saving
\* (permission denied, or a failure, or the view not ready).
C36_Witness ==
  /\ export.pc = "delay" /\ export.isExporting
  /\ ops = 2
  /\ media.saved = <<>>

NumberFields == {"age", "height", "weight"}

\* The form of TextForm with its number field f cleared (""), and with f never
\* touched (undefined).
ClearedForm(f) == TextForm(f, <<>>)
UntouchedForm(f) == [ClearedForm(f) EXCEPT ![f] = Undefined]

\* A cleared number field fails the validation with an error for that field,
\* as an untouched one does, and onSubmit is not called.
ClearedRejected(f) ==
  (Validated /\ call.arg = ClearedForm(f)) =>
    /\ ~call.out.success
    /\ f \in call.out.errors
    /\ call.out.errors = childSchema(UntouchedForm(f)).errors
    /\ submit = IdleSubmit

\* C37: a number field whose raw value is the empty text is not accepted as
\* a number: validation of age, height or weight with the value "" fails
\* with an error for that field, as it does for an untouched field, and no
\* record with age 0 comes into the list from an empty age field.
C37_EmptyNumberRejected ==
  /\ \A f \in NumberFields : ClearedRejected(f)
  /\ call.arg = ClearedForm("age") => \A c \in Records(StoredList) : c.age # 0

\* The part of C37 the schema meets: a cleared height or weight is rejected
\* with an error for its field, as an untouched one is.
ClearedSizeRejected == ClearedRejected("height") /\ ClearedRejected("weight")

\* An untouched number field is rejected with an error for that field.
UntouchedRejected ==
  \A f \in NumberFields :
    /\ ~childSchema(UntouchedForm(f)).success
    /\ childSchema(UntouchedForm(f)).errors = {f}
====
